---- MODULE Spec2Model ----
(***************************************************************************)
(* MiniTest: the registries and run operations of TestFramework            *)
(* (TestFramework.hpp), the assertion macros (TestAssert.hpp), TestSuite   *)
(* (TestSuite.hpp), TestParams (TestParams.hpp), TestBenchmark             *)
(* (TestBenchmark.hpp) and Mock (TestMock.hpp) as a state machine.         *)
(*                                                                         *)
(* Strings that the code inspects character by character (test names,     *)
(* prefixes) are sequences of characters.  A registered std::function is  *)
(* a record that says what its body does when called.                     *)
(***************************************************************************)
EXTENDS Integers, Sequences, FiniteSets, TLC

VARIABLES
    tests,          \* TestFramework::GetTests(): vector<TestCase>
    fw,             \* the most recent TestFramework run operation and its output
    suites,         \* TestSuite::GetSuites(): unordered_map<string, vector<TestCase>>
    setupFuncs,     \* TestSuite::GetSetupFuncs()
    teardownFuncs,  \* TestSuite::GetTeardownFuncs()
    mainT,          \* the calling thread inside a TestSuite run operation
    threads,        \* RunAllSuites: std::vector<std::thread> threads
    trace,          \* per suite name: the hook and test invocations so far
    errs,           \* "[ERROR] ..." lines written to std::cerr by RunSuite
    terminated,     \* std::terminate was called (exception left a thread)
    lastHook,       \* per kind and suite, the hook of the latest TEST_SUITE_SETUP /
                    \* TEST_SUITE_TEARDOWN
    now,            \* std::time(nullptr), in seconds
    logs,           \* the TestLogger::OpenLogFile calls so far
    runs,           \* the number of run operations called so far
    keepLogs,       \* whether logs and runs are kept (they are history only)
    paramTests,     \* TestParams::GetParamTests(): vector<ParamTestCase>
    pm,             \* the most recent TestParams operation and its output
    benchmarks,     \* TestBenchmark::GetBenchmarks(): unordered_map<string, BenchmarkCase>
    benchRegs,      \* the RegisterBenchmark calls made so far, in order
    bench,          \* the most recent TestBenchmark run operation and its output
    mockFunctions,  \* Mock::GetMockFunctions<ReturnType>(), one map per ReturnType
    mockStorage,    \* Mock::mockStorage(): map<type_index, void*>
    mockOps         \* the Mock operations made so far and what each returned

vars == <<tests, fw, suites, setupFuncs, teardownFuncs, mainT, threads,
          trace, errs, terminated, paramTests, pm, benchmarks, benchRegs,
          bench, mockFunctions, mockStorage, mockOps, lastHook, now, logs,
          runs, keepLogs>>

fwVars    == <<tests, fw>>
suiteVars == <<suites, setupFuncs, teardownFuncs, mainT, threads, trace,
               errs, terminated, lastHook>>
logVars   == <<now, logs, runs, keepLogs>>
paramVars == <<paramTests, pm>>
benchVars == <<benchmarks, benchRegs, bench>>
mockVars  == <<mockFunctions, mockStorage, mockOps>>

\* What the operations of one class leave alone in the other classes.
notFw       == <<suiteVars, paramVars, benchVars, mockVars>>
exceptFw    == <<notFw, logVars>>
notSuite    == <<fwVars, paramVars, benchVars, mockVars>>
exceptSuite == <<notSuite, logVars, lastHook>>
notParam    == <<fwVars, suiteVars, benchVars, mockVars>>
exceptParam == <<notParam, logVars>>
notBench    == <<fwVars, suiteVars, paramVars, mockVars>>
exceptBench == <<notBench, logVars>>
exceptMock  == <<fwVars, suiteVars, paramVars, benchVars, logVars>>

----------------------------------------------------------------------------
(* Bounds of the model. *)

MaxTests == 3          \* registrations in TestFramework's registry
MaxSuiteTests == 3     \* registrations in TestSuite's registry (RunSuite)
MaxWorkerTests == 3    \* registrations in TestSuite's registry (RunAllSuites)
MaxParamTests == 4     \* entries of TestParams' registry
MaxBenchRegs == 3      \* calls of RegisterBenchmark
MaxHookSuiteTests == 1 \* registrations in a suite with throwing hooks
MaxMockOps == 4        \* Mock operations
MaxFrameRegs == 2      \* registrations in all registries together
MaxCalls == 3          \* calls of TestFramework::RegisterTest
MaxFairTests == 1      \* registrations per suite when a test may hang
MaxNow == 1            \* seconds that pass
MaxRuns == 2           \* run operations whose log files are kept

----------------------------------------------------------------------------
(* Strings. *)

DISABLED_ == <<"D", "I", "S", "A", "B", "L", "E", "D", "_">>

\* std::string::find(sub) with pos = 0: the lowest position (0-based) at
\* which sub occurs in s, and -1 for npos when it occurs nowhere.
Find(s, sub) ==
    LET hits == { p \in 0..Len(s) :
                    /\ p + Len(sub) <= Len(s)
                    /\ \A k \in 1..Len(sub) : s[p + k] = sub[k] }
    IN  IF hits = {} THEN -1
        ELSE CHOOSE p \in hits : \A q \in hits : p <= q

Digit(d) == <<"0", "1", "2", "3", "4", "5", "6", "7", "8", "9">>[d + 1]

\* The decimal digits of n >= 0.
RECURSIVE Decimal(_)
Decimal(n) ==
    IF n < 10 THEN <<Digit(n)>>
    ELSE Decimal(n \div 10) \o <<Digit(n % 10)>>

----------------------------------------------------------------------------
(* TestLogger *)

TwoDigits(n) == <<Digit(n \div 10), Digit(n % 10)>>

\* GetTimestamp: std::put_time(localtime(t), "%Y%m%d_%H%M%S"), for a clock t
\* that counts the seconds of one day.
GetTimestamp(t) ==
    <<"2", "0", "2", "5", "0", "3", "1", "8", "_">>
        \o TwoDigits((t \div 3600) % 24) \o TwoDigits((t \div 60) % 60)
        \o TwoDigits(t % 60)

\* The file name without the suite name.
LogFileName_NoSuite(suiteName, t) ==
    <<"Logs/test_log_">> \o <<"_">> \o GetTimestamp(t) \o <<".log">>

\* OpenLogFile: "Logs/test_log_" + suiteName + "_" + GetTimestamp() + ".log"
LogFileName(suiteName, t) ==
    <<"Logs/test_log_">> \o suiteName \o <<"_">> \o GetTimestamp(t) \o <<".log">>

\* logFile.open(logFileName, std::ios::out) by thread t in run operation run.
OpenLogFile(suiteName, t, run) ==
    logs' = IF keepLogs
            THEN Append(logs, [logFileName |-> LogFileName(suiteName, now),
                               thread |-> t, run |-> run])
            ELSE logs

\* A run operation is called.
CountRun == runs' = IF keepLogs THEN runs + 1 ELSE runs

\* A run operation that constructs its TestLogger and ends in one step.
LoggedRun(logCategory) ==
    /\ CountRun
    /\ OpenLogFile(logCategory, 0, runs + 1)
    /\ UNCHANGED <<now, keepLogs>>

\* A second passes.
Tick ==
    /\ now' = now + 1
    /\ UNCHANGED <<fwVars, suiteVars, paramVars, benchVars, mockVars, logs,
                   runs, keepLogs>>

----------------------------------------------------------------------------
(* What calling a registered action does. *)

Completes == [kind |-> "completes", what |-> ""]
StdException(w) == [kind |-> "std_exception", what |-> w]
OtherException == [kind |-> "other_exception", what |-> ""]

\* s1; s2
Then(o1, o2) == IF o1.kind = "completes" THEN o2 ELSE o1

\* TestAssert.hpp: the body of ASSERT_FAIL is one comment between
\* "do {" and "} while (0)".
ASSERT_FAIL(message) == Completes

ASSERT_TRUE(condition) ==
    IF ~condition THEN ASSERT_FAIL("is false") ELSE Completes

ASSERT_FALSE(condition) ==
    IF condition THEN ASSERT_FAIL("is true") ELSE Completes

ASSERT_EQ(expected, actual) ==
    IF expected # actual THEN ASSERT_FAIL("!=") ELSE Completes

ASSERT_NE(expected, actual) ==
    IF expected = actual THEN ASSERT_FAIL("==") ELSE Completes

\* statement: "nothing" (throws nothing), "expected" (throws exception_type),
\* "unexpected" (throws something else)
ASSERT_THROW(statement) ==
    LET caught == (statement = "expected")
        inCatchAll == IF statement = "unexpected"
                      THEN ASSERT_FAIL("Unexpected exception type thrown")
                      ELSE Completes
        after == IF ~caught
                 THEN ASSERT_FAIL("Expected exception not thrown")
                 ELSE Completes
    IN  Then(inCatchAll, after)

\* A function body: one statement.
Body(stmt, condition, expected, actual, statement, what) ==
    [stmt |-> stmt, condition |-> condition, expected |-> expected,
     actual |-> actual, statement |-> statement, what |-> what]

Return      == Body("return", TRUE, 0, 0, "nothing", "")
ThrowStd(w) == Body("throw_std", TRUE, 0, 0, "nothing", w)
ThrowOther  == Body("throw_other", TRUE, 0, 0, "nothing", "")
Hang        == Body("hang", TRUE, 0, 0, "nothing", "")
AssertTrue(c)   == Body("ASSERT_TRUE", c, 0, 0, "nothing", "")
AssertFalse(c)  == Body("ASSERT_FALSE", c, 0, 0, "nothing", "")
AssertEq(e, a)  == Body("ASSERT_EQ", TRUE, e, a, "nothing", "")
AssertNe(e, a)  == Body("ASSERT_NE", TRUE, e, a, "nothing", "")
AssertThrow(s)  == Body("ASSERT_THROW", TRUE, 0, 0, s, "")

\* func(): the way the call ends (a body that hangs never ends; the stepwise
\* actions below never complete it).
Call(func) ==
    CASE func.stmt = "return"       -> Completes
      [] func.stmt = "throw_std"    -> StdException(func.what)
      [] func.stmt = "throw_other"  -> OtherException
      [] func.stmt = "ASSERT_TRUE"  -> ASSERT_TRUE(func.condition)
      [] func.stmt = "ASSERT_FALSE" -> ASSERT_FALSE(func.condition)
      [] func.stmt = "ASSERT_EQ"    -> ASSERT_EQ(func.expected, func.actual)
      [] func.stmt = "ASSERT_NE"    -> ASSERT_NE(func.expected, func.actual)
      [] func.stmt = "ASSERT_THROW" -> ASSERT_THROW(func.statement)

TestCase(name, func) == [name |-> name, func |-> func]

----------------------------------------------------------------------------
(* TestFramework *)

\* name.find(prefix) != npos in place of == 0
FilterMatches_Contains(filter, name) ==
    CASE filter.kind = "all"      -> TRUE
      [] filter.kind = "prefix"   -> Find(name, filter.arg) # -1
      [] filter.kind = "single"   -> name = filter.arg
      [] filter.kind = "disabled" -> Find(name, DISABLED_) # -1

\* RunAllTests with a filter that leaves out the DISABLED_ names
FilterMatches_SkipDisabled(filter, name) ==
    CASE filter.kind = "all"      -> Find(name, DISABLED_) # 0
      [] filter.kind = "prefix"   -> Find(name, filter.arg) = 0
      [] filter.kind = "single"   -> name = filter.arg
      [] filter.kind = "disabled" -> Find(name, DISABLED_) = 0

\* RunDisabledTests with name.find("DISABLED_") != npos
FilterMatches_DisabledAnywhere(filter, name) ==
    CASE filter.kind = "all"      -> TRUE
      [] filter.kind = "prefix"   -> Find(name, filter.arg) = 0
      [] filter.kind = "single"   -> name = filter.arg
      [] filter.kind = "disabled" -> Find(name, DISABLED_) # -1

\* The filter lambdas of RunAllTests, RunTestsByPrefix, RunSingleTest and
\* RunDisabledTests, applied to a name.
FilterMatches(filter, name) ==
    CASE filter.kind = "all"      -> TRUE
      [] filter.kind = "prefix"   -> Find(name, filter.arg) = 0
      [] filter.kind = "single"   -> name = filter.arg
      [] filter.kind = "disabled" -> Find(name, DISABLED_) = 0

NoRun ==
    [op |-> "none", arg |-> <<>>, logCategory |-> <<>>, executed |-> <<>>,
     lines |-> <<>>, passed |-> 0, failed |-> 0, summary |-> FALSE,
     total |-> 0, propagated |-> FALSE]

\* Variants of the loop of RunFilteredTests: "break" leaves the loop at the
\* first caught exception, "catch_all" catches (...) in place of
\* (const std::exception&), "from_second" starts at the second element.
RECURSIVE LoopVariant(_, _, _, _, _)
LoopVariant(variant, reg, filter, i, r) ==
    IF i > Len(reg)
    THEN [r EXCEPT !.summary = TRUE, !.total = r.passed + r.failed]
    ELSE IF \/ ~FilterMatches(filter, reg[i].name)
            \/ (variant = "from_second" /\ i = 1)
    THEN LoopVariant(variant, reg, filter, i + 1, r)
    ELSE LET o == Call(reg[i].func)
             ran == [r EXCEPT !.executed = Append(@, i)]
             pass == [ran EXCEPT
                        !.lines = Append(@, [name |-> reg[i].name,
                                             verdict |-> "PASS",
                                             what |-> ""]),
                        !.passed = @ + 1]
             fail == [ran EXCEPT
                        !.lines = Append(@, [name |-> reg[i].name,
                                             verdict |-> "FAIL",
                                             what |-> o.what]),
                        !.failed = @ + 1]
         IN  CASE o.kind = "completes" ->
                    LoopVariant(variant, reg, filter, i + 1, pass)
               [] o.kind = "std_exception" ->
                    IF variant = "break"
                    THEN [fail EXCEPT !.summary = TRUE,
                                      !.total = fail.passed + fail.failed]
                    ELSE LoopVariant(variant, reg, filter, i + 1, fail)
               [] OTHER ->
                    IF variant = "catch_all"
                    THEN LoopVariant(variant, reg, filter, i + 1, fail)
                    ELSE [ran EXCEPT !.propagated = TRUE]

RunFilteredLoop_Break(reg, filter, i, r) ==
    LoopVariant("break", reg, filter, i, r)

RunFilteredLoop_CatchAll(reg, filter, i, r) ==
    LoopVariant("catch_all", reg, filter, i, r)

RunFilteredLoop_FromSecond(reg, filter, i, r) ==
    LoopVariant("from_second", reg, filter, i, r)

\* The for loop of RunFilteredTests from element i on, and the summary after
\* it.  r.executed lists the registry positions whose func was called,
\* r.lines the [PASS]/[FAIL] lines printed.
RECURSIVE RunFilteredLoop(_, _, _, _)
RunFilteredLoop(reg, filter, i, r) ==
    IF i > Len(reg)
    THEN [r EXCEPT !.summary = TRUE, !.total = r.passed + r.failed]
    ELSE IF ~FilterMatches(filter, reg[i].name)
    THEN RunFilteredLoop(reg, filter, i + 1, r)
    ELSE LET o == Call(reg[i].func)
             ran == [r EXCEPT !.executed = Append(@, i)]
         IN  CASE o.kind = "completes" ->
                    RunFilteredLoop(reg, filter, i + 1,
                        [ran EXCEPT
                            !.lines = Append(@, [name |-> reg[i].name,
                                                 verdict |-> "PASS",
                                                 what |-> ""]),
                            !.passed = @ + 1])
               [] o.kind = "std_exception" ->
                    RunFilteredLoop(reg, filter, i + 1,
                        [ran EXCEPT
                            !.lines = Append(@, [name |-> reg[i].name,
                                                 verdict |-> "FAIL",
                                                 what |-> o.what]),
                            !.failed = @ + 1])
               [] OTHER -> [ran EXCEPT !.propagated = TRUE]

RunFilteredTests(op, arg, filter, logCategory) ==
    RunFilteredLoop(tests, filter, 1,
        [NoRun EXCEPT !.op = op, !.arg = arg, !.logCategory = logCategory])

\* RegisterTest refusing a name the registry already holds.
RegisterTest_Unique(name, func) ==
    /\ tests' = IF \E i \in 1..Len(tests) : tests[i].name = name
                THEN tests
                ELSE Append(tests, TestCase(name, func))
    /\ fw' = [NoRun EXCEPT !.op = "RegisterTest", !.arg = name]
    /\ UNCHANGED exceptFw

\* GetTests().push_back({name, func}); fw keeps the call and its name.
RegisterTest(name, func) ==
    /\ tests' = Append(tests, TestCase(name, func))
    /\ fw' = [NoRun EXCEPT !.op = "RegisterTest", !.arg = name]
    /\ UNCHANGED exceptFw

RunAllTests ==
    /\ fw' = RunFilteredTests("RunAllTests", <<>>, [kind |-> "all"],
                              <<"AllTests">>)
    /\ LoggedRun(fw'.logCategory)
    /\ UNCHANGED <<tests, notFw>>

RunTestsByPrefix(prefix) ==
    /\ fw' = RunFilteredTests("RunTestsByPrefix", prefix,
                              [kind |-> "prefix", arg |-> prefix],
                              <<"Prefix_">> \o prefix)
    /\ LoggedRun(fw'.logCategory)
    /\ UNCHANGED <<tests, notFw>>

RunSingleTest(testName) ==
    /\ fw' = RunFilteredTests("RunSingleTest", testName,
                              [kind |-> "single", arg |-> testName],
                              <<"Single_">> \o testName)
    /\ LoggedRun(fw'.logCategory)
    /\ UNCHANGED <<tests, notFw>>

RunDisabledTests ==
    /\ fw' = RunFilteredTests("RunDisabledTests", <<>>, [kind |-> "disabled"],
                              <<"DisabledTests">>)
    /\ LoggedRun(fw'.logCategory)
    /\ UNCHANGED <<tests, notFw>>

----------------------------------------------------------------------------
(* TestSuite *)

SuiteNames == {"Math", "Str", "Ghost"}

\* Thread 0 is the caller of RunSuite / RunAllSuites; thread t >= 1 is
\* threads[t], started by RunAllSuites.
Idle == {"idle", "returned", "propagated"}

MainIdle ==
    [op |-> "none", pc |-> "idle", suite |-> "", testFilter |-> <<>>,
     tests |-> <<>>, i |-> 1, passed |-> 0, failed |-> 0, summary |-> FALSE,
     spawned |-> {}, j |-> 1, logFileName |-> <<>>]

\* A thread at the first statement of RunSuite(suite, testFilter).
Frame(op, suite, testFilter) ==
    [MainIdle EXCEPT !.op = op, !.pc = "RunSuite", !.suite = suite,
                     !.testFilter = testFilter]

Get(t) == IF t = 0 THEN mainT ELSE threads[t]

Set(t, f) ==
    IF t = 0
    THEN mainT' = f /\ UNCHANGED threads
    ELSE threads' = [threads EXCEPT ![t] = f] /\ UNCHANGED mainT

Threads == 0..Len(threads)

NoTrace == [s \in SuiteNames |-> <<>>]

Event(kind, phase, what, t) ==
    [kind |-> kind, phase |-> phase, what |-> what, thread |-> t]

Emit(suite, e) == trace' = [trace EXCEPT ![suite] = Append(@, e)]

Registries == <<suites, setupFuncs, teardownFuncs>>

\* No run operation of TestSuite is in progress.
Quiet == ~terminated /\ mainT.pc \in Idle

Forget ==
    /\ mainT' = MainIdle
    /\ threads' = <<>>
    /\ trace' = NoTrace
    /\ errs' = <<>>

\* TestSuite::RegisterTest: GetSuites()[suite].push_back({test, func})
TestSuite_RegisterTest(suite, test, func) ==
    /\ Quiet
    /\ suites' = IF suite \in DOMAIN suites
                 THEN [suites EXCEPT ![suite] = Append(@, TestCase(test, func))]
                 ELSE suites @@ (suite :> <<TestCase(test, func)>>)
    /\ Forget
    /\ UNCHANGED <<exceptSuite, setupFuncs, teardownFuncs, terminated>>

\* TEST_SUITE_SETUP with GetSetupFuncs().emplace(suite, func): the first
\* function registered for a suite stays.
RegisterSetup_KeepsFirst(suite, hook) ==
    /\ Quiet
    /\ setupFuncs' = IF suite \in DOMAIN setupFuncs
                     THEN setupFuncs
                     ELSE setupFuncs @@ (suite :> hook)
    /\ lastHook' = [x \in DOMAIN lastHook \cup {<<"setup", suite>>} |->
                      IF x = <<"setup", suite>> THEN hook ELSE lastHook[x]]
    /\ Forget
    /\ UNCHANGED <<notSuite, logVars, suites, teardownFuncs, terminated>>

\* TEST_SUITE_SETUP: GetSetupFuncs()[suite] = func
RegisterSetup(suite, hook) ==
    /\ Quiet
    /\ setupFuncs' = IF suite \in DOMAIN setupFuncs
                     THEN [setupFuncs EXCEPT ![suite] = hook]
                     ELSE setupFuncs @@ (suite :> hook)
    /\ lastHook' = [x \in DOMAIN lastHook \cup {<<"setup", suite>>} |->
                      IF x = <<"setup", suite>> THEN hook ELSE lastHook[x]]
    /\ Forget
    /\ UNCHANGED <<notSuite, logVars, suites, teardownFuncs, terminated>>

\* TEST_SUITE_TEARDOWN: GetTeardownFuncs()[suite] = func
RegisterTeardown(suite, hook) ==
    /\ Quiet
    /\ teardownFuncs' = IF suite \in DOMAIN teardownFuncs
                        THEN [teardownFuncs EXCEPT ![suite] = hook]
                        ELSE teardownFuncs @@ (suite :> hook)
    /\ lastHook' = [x \in DOMAIN lastHook \cup {<<"teardown", suite>>} |->
                      IF x = <<"teardown", suite>> THEN hook ELSE lastHook[x]]
    /\ Forget
    /\ UNCHANGED <<notSuite, logVars, suites, setupFuncs, terminated>>

\* The caller enters RunSuite(suite, testFilter).
CallRunSuite(suite, testFilter) ==
    /\ Quiet
    /\ mainT' = Frame("RunSuite", suite, testFilter)
    /\ threads' = <<>>
    /\ trace' = NoTrace
    /\ errs' = <<>>
    /\ CountRun
    /\ UNCHANGED <<notSuite, lastHook, now, logs, keepLogs, Registries,
                   terminated>>

\* std::ranges::find_if(tests, name == testFilter): the first position with
\* that name, 0 for tests.end().
FindIf(list, testFilter) ==
    LET hits == { k \in 1..Len(list) : list[k].name = testFilter }
    IN  IF hits = {} THEN 0
        ELSE CHOOSE k \in hits : \A q \in hits : k <= q

\* Variants of RunSuiteLookup: "no_contains" goes on to suites[suite] without
\* the contains test (operator[] inserts an empty vector), "whole_suite"
\* passes the whole vector to RunTests when the filter matches.
LookupVariant(variant, t) ==
    LET f == Get(t)
        known == f.suite \in DOMAIN suites
        list == IF known THEN suites[f.suite] ELSE <<>>
        it == FindIf(list, f.testFilter)
    IN
    /\ ~terminated
    /\ f.pc = "RunSuite"
    /\ IF ~known /\ variant # "no_contains"
       THEN /\ errs' = Append(errs, [error |-> "suite not found",
                                     suite |-> f.suite, test |-> <<>>])
            /\ Set(t, [f EXCEPT !.pc = "returned"])
            /\ UNCHANGED suites
       ELSE IF f.testFilter = <<>> \/ it # 0
       THEN /\ Set(t, [f EXCEPT
                  !.pc = "RunTests",
                  !.tests = IF f.testFilter = <<>> \/ variant = "whole_suite"
                            THEN list ELSE <<list[it]>>])
            /\ suites' = IF known THEN suites ELSE suites @@ (f.suite :> <<>>)
            /\ UNCHANGED errs
       ELSE /\ errs' = Append(errs, [error |-> "test not found",
                                     suite |-> f.suite,
                                     test |-> f.testFilter])
            /\ Set(t, [f EXCEPT !.pc = "returned"])
            /\ suites' = IF known THEN suites ELSE suites @@ (f.suite :> <<>>)
    /\ UNCHANGED <<exceptSuite, setupFuncs, teardownFuncs, trace, terminated>>

RunSuiteLookup_NoContains(t) == LookupVariant("no_contains", t)

RunSuiteLookup_WholeSuite(t) == LookupVariant("whole_suite", t)

\* RunSuite up to its call of RunTests or its return.  suites[suite] is
\* reached only for a key the map contains, so operator[] inserts nothing
\* and the threads of RunAllSuites only read the map.
RunSuiteLookup(t) ==
    LET f == Get(t) IN
    /\ ~terminated
    /\ f.pc = "RunSuite"
    /\ IF f.suite \notin DOMAIN suites
       THEN /\ errs' = Append(errs, [error |-> "suite not found",
                                     suite |-> f.suite, test |-> <<>>])
            /\ Set(t, [f EXCEPT !.pc = "returned"])
       ELSE IF f.testFilter = <<>>
       THEN /\ Set(t, [f EXCEPT !.pc = "RunTests", !.tests = suites[f.suite]])
            /\ UNCHANGED errs
       ELSE LET it == FindIf(suites[f.suite], f.testFilter) IN
            IF it # 0
            THEN /\ Set(t, [f EXCEPT !.pc = "RunTests",
                                     !.tests = <<suites[f.suite][it]>>])
                 /\ UNCHANGED errs
            ELSE /\ errs' = Append(errs, [error |-> "test not found",
                                          suite |-> f.suite,
                                          test |-> f.testFilter])
                 /\ Set(t, [f EXCEPT !.pc = "returned"])
    /\ UNCHANGED <<exceptSuite, Registries, trace, terminated>>

\* An exception leaves RunTests and RunSuite uncaught: the caller of
\* RunSuite receives it; in a thread of RunAllSuites it leaves the thread
\* function and std::terminate ends the process.
Propagate(t, f) ==
    /\ Set(t, [f EXCEPT !.pc = "propagated"])
    /\ terminated' = (t # 0)

\* SetupSuite with "if (auto f = setupFuncs[suite]) f();": operator[]
\* inserts an empty std::function under a key the map does not contain.
SetupSuite_Inserts(t) ==
    LET f == Get(t) IN
    /\ ~terminated
    /\ f.pc = "RunTests"
    /\ OpenLogFile(<<f.suite>>, t, runs)
    /\ IF f.suite \in DOMAIN setupFuncs
       THEN /\ Set(t, [f EXCEPT !.pc = "in_setup",
                                !.logFileName = LogFileName(<<f.suite>>, now)])
            /\ Emit(f.suite, Event("setup", "begin", setupFuncs[f.suite], t))
            /\ UNCHANGED setupFuncs
       ELSE /\ Set(t, [f EXCEPT !.pc = "loop",
                                !.logFileName = LogFileName(<<f.suite>>, now)])
            /\ setupFuncs' = setupFuncs @@ (f.suite :> [name |-> <<>>, func |-> Return])
            /\ UNCHANGED trace
    /\ UNCHANGED <<notSuite, lastHook, now, runs, keepLogs, suites,
                   teardownFuncs, errs, terminated>>

\* RunTests: "TestLogger logger(suite)" opens the log file of the run, then
\* SetupSuite(suite) calls the setup function when the map contains one.
SetupSuite(t) ==
    LET f == Get(t) IN
    /\ ~terminated
    /\ f.pc = "RunTests"
    /\ OpenLogFile(<<f.suite>>, t, runs)
    /\ IF f.suite \in DOMAIN setupFuncs
       THEN /\ Set(t, [f EXCEPT !.pc = "in_setup",
                                !.logFileName = LogFileName(<<f.suite>>, now)])
            /\ Emit(f.suite, Event("setup", "begin", setupFuncs[f.suite], t))
       ELSE /\ Set(t, [f EXCEPT !.pc = "loop",
                                !.logFileName = LogFileName(<<f.suite>>, now)])
            /\ UNCHANGED trace
    /\ UNCHANGED <<notSuite, lastHook, now, runs, keepLogs, Registries, errs,
                   terminated>>

SetupReturn(t) ==
    LET f == Get(t)
        hook == setupFuncs[f.suite]
    IN
    /\ ~terminated
    /\ f.pc = "in_setup"
    /\ hook.func.stmt # "hang"
    /\ Emit(f.suite, Event("setup", "end", hook, t))
    /\ IF Call(hook.func).kind = "completes"
       THEN Set(t, [f EXCEPT !.pc = "loop"]) /\ UNCHANGED terminated
       ELSE Propagate(t, f)
    /\ UNCHANGED <<exceptSuite, Registries, errs>>

\* The loop of RunTests: func() of element i is called.
TestBegin(t) ==
    LET f == Get(t) IN
    /\ ~terminated
    /\ f.pc = "loop"
    /\ f.i <= Len(f.tests)
    /\ Set(t, [f EXCEPT !.pc = "in_test"])
    /\ Emit(f.suite, Event("test", "begin", f.tests[f.i], t))
    /\ UNCHANGED <<exceptSuite, Registries, errs, terminated>>

\* func() of element i ends: [PASS] and ++passed, or the std::exception is
\* caught with [FAIL] and ++failed, or the exception is not caught.
TestEnd(t) ==
    LET f == Get(t)
        tc == f.tests[f.i]
        o == Call(tc.func)
    IN
    /\ ~terminated
    /\ f.pc = "in_test"
    /\ tc.func.stmt # "hang"
    /\ Emit(f.suite, Event("test", "end", tc, t))
    /\ CASE o.kind = "completes" ->
              /\ Set(t, [f EXCEPT !.pc = "loop", !.i = @ + 1, !.passed = @ + 1])
              /\ UNCHANGED terminated
         [] o.kind = "std_exception" ->
              /\ Set(t, [f EXCEPT !.pc = "loop", !.i = @ + 1, !.failed = @ + 1])
              /\ UNCHANGED terminated
         [] OTHER -> Propagate(t, f)
    /\ UNCHANGED <<exceptSuite, Registries, errs>>

\* TeardownSuite called only when no test failed.
TeardownSuite_UnlessFailed(t) ==
    LET f == Get(t) IN
    /\ ~terminated
    /\ f.pc = "loop"
    /\ f.i > Len(f.tests)
    /\ IF f.suite \in DOMAIN teardownFuncs /\ f.failed = 0
       THEN /\ Set(t, [f EXCEPT !.pc = "in_teardown"])
            /\ Emit(f.suite, Event("teardown", "begin", teardownFuncs[f.suite], t))
       ELSE /\ Set(t, [f EXCEPT !.pc = "returned", !.summary = TRUE])
            /\ UNCHANGED trace
    /\ UNCHANGED <<exceptSuite, Registries, errs, terminated>>

\* After the loop: TeardownSuite(suite) calls the teardown function when the
\* map contains one; then the "[SUITE] ..." line.
TeardownSuite(t) ==
    LET f == Get(t) IN
    /\ ~terminated
    /\ f.pc = "loop"
    /\ f.i > Len(f.tests)
    /\ IF f.suite \in DOMAIN teardownFuncs
       THEN /\ Set(t, [f EXCEPT !.pc = "in_teardown"])
            /\ Emit(f.suite, Event("teardown", "begin", teardownFuncs[f.suite], t))
       ELSE /\ Set(t, [f EXCEPT !.pc = "returned", !.summary = TRUE])
            /\ UNCHANGED trace
    /\ UNCHANGED <<exceptSuite, Registries, errs, terminated>>

TeardownReturn(t) ==
    LET f == Get(t)
        hook == teardownFuncs[f.suite]
    IN
    /\ ~terminated
    /\ f.pc = "in_teardown"
    /\ hook.func.stmt # "hang"
    /\ Emit(f.suite, Event("teardown", "end", hook, t))
    /\ IF Call(hook.func).kind = "completes"
       THEN /\ Set(t, [f EXCEPT !.pc = "returned", !.summary = TRUE])
            /\ UNCHANGED terminated
       ELSE Propagate(t, f)
    /\ UNCHANGED <<exceptSuite, Registries, errs>>

\* The caller enters RunAllSuites.
CallRunAllSuites ==
    /\ Quiet
    /\ mainT' = [MainIdle EXCEPT !.op = "RunAllSuites", !.pc = "spawn"]
    /\ threads' = <<>>
    /\ trace' = NoTrace
    /\ errs' = <<>>
    /\ CountRun
    /\ UNCHANGED <<notSuite, lastHook, now, logs, keepLogs, Registries,
                   terminated>>

\* The keys the first loop of RunAllSuites has still to visit (the order in
\* which an unordered_map yields its keys is not specified).
KeysLeft == DOMAIN suites \ mainT.spawned

\* Two threads per key.
Spawn_Twice(key) ==
    /\ ~terminated
    /\ mainT.pc = "spawn"
    /\ key \in KeysLeft
    /\ threads' = threads \o <<Frame("worker", key, <<>>), Frame("worker", key, <<>>)>>
    /\ mainT' = [mainT EXCEPT !.spawned = @ \cup {key}]
    /\ UNCHANGED <<exceptSuite, Registries, trace, errs, terminated>>

\* A thread started only once the threads before it have returned (the
\* suites run one after another).
Spawn_AfterReturn(key) ==
    /\ ~terminated
    /\ mainT.pc = "spawn"
    /\ key \in KeysLeft
    /\ \A t \in 1..Len(threads) : threads[t].pc = "returned"
    /\ threads' = Append(threads, Frame("worker", key, <<>>))
    /\ mainT' = [mainT EXCEPT !.spawned = @ \cup {key}]
    /\ UNCHANGED <<exceptSuite, Registries, trace, errs, terminated>>

\* threads.emplace_back([key]() { RunSuite(key); })
Spawn(key) ==
    /\ ~terminated
    /\ mainT.pc = "spawn"
    /\ key \in KeysLeft
    /\ threads' = Append(threads, Frame("worker", key, <<>>))
    /\ mainT' = [mainT EXCEPT !.spawned = @ \cup {key}]
    /\ UNCHANGED <<exceptSuite, Registries, trace, errs, terminated>>

\* The first loop is over; the second loop starts.
SpawnDone ==
    /\ ~terminated
    /\ mainT.pc = "spawn"
    /\ KeysLeft = {}
    /\ mainT' = [mainT EXCEPT !.pc = "join", !.j = 1]
    /\ UNCHANGED <<exceptSuite, Registries, threads, trace, errs, terminated>>

\* The second loop without waiting (detach in place of join).
Join_NoWait ==
    /\ ~terminated
    /\ mainT.pc = "join"
    /\ mainT.j <= Len(threads)
    /\ mainT' = [mainT EXCEPT !.j = @ + 1]
    /\ UNCHANGED <<exceptSuite, Registries, threads, trace, errs, terminated>>

\* t.join() returns once the thread's function has returned.
Join ==
    /\ ~terminated
    /\ mainT.pc = "join"
    /\ mainT.j <= Len(threads)
    /\ threads[mainT.j].pc = "returned"
    /\ mainT' = [mainT EXCEPT !.j = @ + 1]
    /\ UNCHANGED <<exceptSuite, Registries, threads, trace, errs, terminated>>

RunAllSuitesReturn ==
    /\ ~terminated
    /\ mainT.pc = "join"
    /\ mainT.j > Len(threads)
    /\ mainT' = [mainT EXCEPT !.pc = "returned"]
    /\ UNCHANGED <<exceptSuite, Registries, threads, trace, errs, terminated>>

----------------------------------------------------------------------------
(* TestParams *)

\* One element of a std::tuple<Args...>: an int or a std::string.
IntArg(n) == [type |-> "int", int |-> n, str |-> <<>>]
StrArg(str) == [type |-> "string", int |-> 0, str |-> str]

\* oss << std::get<Index>(tuple): the characters operator<< writes.
StreamOut(v) ==
    IF v.type = "int"
    THEN IF v.int < 0 THEN <<"-">> \o Decimal(0 - v.int) ELSE Decimal(v.int)
    ELSE v.str

\* The fold expression of FormatTupleImpl over Index = 0 .. n-1: what oss
\* holds after the first n elements.
RECURSIVE FormatFold(_, _)
FormatFold(tuple, n) ==
    IF n = 0 THEN <<>>
    ELSE FormatFold(tuple, n - 1)
         \o (IF n - 1 = 0 THEN <<>> ELSE <<",", " ">>)
         \o StreamOut(tuple[n])

\* return oss.str() in place of "(" + oss.str() + ")"
FormatTupleImpl_NoParens(tuple) == FormatFold(tuple, Len(tuple))

FormatTupleImpl(tuple) == <<"(">> \o FormatFold(tuple, Len(tuple)) \o <<")">>

FormatParams(params) == FormatTupleImpl(params)

\* A parameterized test function that throws std::runtime_error(w) when its
\* first argument is a negative int.
ThrowStdIfNegative(w) == Body("throw_std_if_negative", TRUE, 0, 0, "nothing", w)

\* std::apply(func, paramSet)
Apply(func, paramSet) ==
    IF func.stmt = "throw_std_if_negative"
    THEN IF /\ Len(paramSet) >= 1
            /\ paramSet[1].type = "int"
            /\ paramSet[1].int < 0
         THEN StdException(func.what)
         ELSE Completes
    ELSE Call(func)

\* [func, paramSet]() { std::apply(func, paramSet); }
Closure(func, paramSet) == [func |-> func, paramSet |-> paramSet]

CallClosure(c) == Apply(c.func, c.paramSet)

ParamTestCase(name, func) == [name |-> name, func |-> func]

NoParamRun ==
    [op |-> "none", name |-> <<>>, func |-> Return, params |-> <<>>,
     executed |-> <<>>, lines |-> <<>>, passed |-> 0, failed |-> 0,
     summary |-> FALSE, total |-> 0, propagated |-> FALSE]

\* The for loop of RegisterParamTest from element i of params on.
RECURSIVE RegisterParamLoop(_, _, _, _, _)
RegisterParamLoop(reg, name, func, params, i) ==
    IF i > Len(params) THEN reg
    ELSE RegisterParamLoop(
            Append(reg, ParamTestCase(name \o FormatParams(params[i]),
                                      Closure(func, params[i]))),
            name, func, params, i + 1)

\* pm keeps the arguments of the call.
RegisterParamTest(name, func, params) ==
    /\ paramTests' = RegisterParamLoop(paramTests, name, func, params, 1)
    /\ pm' = [NoParamRun EXCEPT !.op = "RegisterParamTest", !.name = name,
                                !.func = func, !.params = params]
    /\ UNCHANGED exceptParam

\* The loop leaving at the first std::exception ("break" in the handler).
RECURSIVE RunParamLoop_StopsAtFailure(_, _, _)
RunParamLoop_StopsAtFailure(reg, i, r) ==
    IF i > Len(reg)
    THEN [r EXCEPT !.summary = TRUE, !.total = r.passed + r.failed]
    ELSE LET o == CallClosure(reg[i].func)
             ran == [r EXCEPT !.executed = Append(@, i)]
         IN  CASE o.kind = "completes" ->
                    RunParamLoop_StopsAtFailure(reg, i + 1,
                        [ran EXCEPT
                            !.lines = Append(@, [name |-> reg[i].name,
                                                 verdict |-> "PASS",
                                                 what |-> ""]),
                            !.passed = @ + 1])
               [] o.kind = "std_exception" ->
                    [ran EXCEPT
                        !.lines = Append(@, [name |-> reg[i].name,
                                             verdict |-> "FAIL",
                                             what |-> o.what]),
                        !.failed = @ + 1,
                        !.summary = TRUE,
                        !.total = r.passed + r.failed + 1]
               [] OTHER -> [ran EXCEPT !.propagated = TRUE]

\* The for loop of RunAllParamTests from element i on, and the summary
\* after it.
RECURSIVE RunParamLoop(_, _, _)
RunParamLoop(reg, i, r) ==
    IF i > Len(reg)
    THEN [r EXCEPT !.summary = TRUE, !.total = r.passed + r.failed]
    ELSE LET o == CallClosure(reg[i].func)
             ran == [r EXCEPT !.executed = Append(@, i)]
         IN  CASE o.kind = "completes" ->
                    RunParamLoop(reg, i + 1,
                        [ran EXCEPT
                            !.lines = Append(@, [name |-> reg[i].name,
                                                 verdict |-> "PASS",
                                                 what |-> ""]),
                            !.passed = @ + 1])
               [] o.kind = "std_exception" ->
                    RunParamLoop(reg, i + 1,
                        [ran EXCEPT
                            !.lines = Append(@, [name |-> reg[i].name,
                                                 verdict |-> "FAIL",
                                                 what |-> o.what]),
                            !.failed = @ + 1])
               [] OTHER -> [ran EXCEPT !.propagated = TRUE]

RunAllParamTests ==
    /\ pm' = RunParamLoop(paramTests, 1,
                          [NoParamRun EXCEPT !.op = "RunAllParamTests"])
    /\ LoggedRun(<<"ParamTests">>)
    /\ UNCHANGED <<paramTests, notParam>>

----------------------------------------------------------------------------
(* TestBenchmark *)

BenchmarkCase(func, iterations) == [func |-> func, iterations |-> iterations]

\* order: the order in which the range-for visited the map; calls: the
\* calls of func() made, each with the name of its case and, when it
\* returned, the duration measured; reports: the "Avg Time" lines printed;
\* propagated: an exception left the run operation, exception says which.
NoBenchRun ==
    [op |-> "none", arg |-> "", logCategory |-> <<>>, order |-> <<>>,
     calls |-> <<>>, reports |-> <<>>, returned |-> FALSE,
     propagated |-> FALSE, exception |-> Completes]

\* GetBenchmarks()[name] = {func, iterations}
RegisterBenchmark(name, func, iterations) ==
    /\ benchmarks' = [n \in DOMAIN benchmarks \cup {name} |->
                         IF n = name THEN BenchmarkCase(func, iterations)
                         ELSE benchmarks[n]]
    /\ benchRegs' = Append(benchRegs, [name |-> name, func |-> func,
                                       iterations |-> iterations])
    /\ bench' = NoBenchRun
    /\ UNCHANGED exceptBench

\* The filter lambdas of RunAllBenchmarks and RunBenchmark.
BenchFilterMatches(filter, testName) ==
    CASE filter.kind = "all"  -> TRUE
      [] filter.kind = "name" -> testName = filter.arg

\* The orders in which a range-for can visit the elements of an
\* unordered_map with the keys S: the standard fixes none.
IterationOrders(S) ==
    { o \in [1..Cardinality(S) -> S] : \A n \in S : \E p \in DOMAIN o : o[p] = n }

\* totalTime = t in place of totalTime += t
TotalTime_LastOnly(times) ==
    IF times = <<>> THEN 0 ELSE times[Len(times)]

\* double totalTime = 0; for (const double t : times) totalTime += t;
RECURSIVE TotalTime(_)
TotalTime(times) ==
    IF times = <<>> THEN 0
    ELSE TotalTime(SubSeq(times, 1, Len(times) - 1)) + times[Len(times)]

\* totalTime / iterations on doubles, for totalTime >= 0: the quotient as
\* the fraction num/den, and what IEEE 754 gives for a zero divisor (no
\* trap: 0.0/0 is NaN, x/0 is inf; 0.0 by a negative count is -0).
Divide(totalTime, iterations) ==
    IF iterations = 0
    THEN [class |-> IF totalTime = 0 THEN "nan" ELSE "inf", num |-> 0, den |-> 0]
    ELSE [class |-> "number", num |-> totalTime, den |-> iterations]

\* for (int i = 0; i < iterations; ++i) of one case, from i on.  clock gives
\* the duration that the k-th call of the run is measured to take.
RECURSIVE TimedLoop(_, _, _, _, _, _)
TimedLoop(name, c, i, times, clock, calls) ==
    IF ~(i < c.iterations)
    THEN [times |-> times, calls |-> calls, exception |-> Completes]
    ELSE LET o == Call(c.func)
             duration == clock[Len(calls) + 1]
         IN  IF o.kind = "completes"
             THEN TimedLoop(name, c, i + 1, Append(times, duration), clock,
                            Append(calls, [name |-> name, returned |-> TRUE,
                                           duration |-> duration]))
             ELSE [times |-> times,
                   calls |-> Append(calls, [name |-> name, returned |-> FALSE,
                                            duration |-> 0]),
                   exception |-> o]

\* The range-for of RunFilteredBenchmarks from the p-th visited element on.
RECURSIVE RunFilteredBenchmarksLoop(_, _, _, _, _)
RunFilteredBenchmarksLoop(order, filter, p, clock, r) ==
    IF p > Len(order) THEN [r EXCEPT !.returned = TRUE]
    ELSE IF ~BenchFilterMatches(filter, order[p])
    THEN RunFilteredBenchmarksLoop(order, filter, p + 1, clock, r)
    ELSE LET fst == order[p]
             snd == benchmarks[fst]
             loop == TimedLoop(fst, snd, 0, <<>>, clock, r.calls)
             totalTime == TotalTime(loop.times)
             avgTime == Divide(totalTime, snd.iterations)
         IN  IF loop.exception.kind # "completes"
             THEN [r EXCEPT !.calls = loop.calls, !.propagated = TRUE,
                            !.exception = loop.exception]
             ELSE RunFilteredBenchmarksLoop(order, filter, p + 1, clock,
                     [r EXCEPT !.calls = loop.calls,
                               !.reports = Append(@,
                                   [name |-> fst,
                                    iterations |-> snd.iterations,
                                    avgTime |-> avgTime])])

RunFilteredBenchmarks(op, arg, filter, logCategory, order, clock) ==
    RunFilteredBenchmarksLoop(order, filter, 1, clock,
        [NoBenchRun EXCEPT !.op = op, !.arg = arg,
                           !.logCategory = logCategory, !.order = order])

RunAllBenchmarks(order, clock) ==
    /\ order \in IterationOrders(DOMAIN benchmarks)
    /\ bench' = RunFilteredBenchmarks("RunAllBenchmarks", "",
                    [kind |-> "all"], <<"AllBenchmarks">>, order, clock)
    /\ LoggedRun(bench'.logCategory)
    /\ UNCHANGED <<benchmarks, benchRegs, notBench>>

RunBenchmark(name, order, clock) ==
    /\ order \in IterationOrders(DOMAIN benchmarks)
    /\ bench' = RunFilteredBenchmarks("RunBenchmark", name,
                    [kind |-> "name", arg |-> name],
                    <<"Benchmark_", name>>, order, clock)
    /\ LoggedRun(bench'.logCategory)
    /\ UNCHANGED <<benchmarks, benchRegs, notBench>>

----------------------------------------------------------------------------
(* Mock *)

ReturnTypes == {"int", "long"}

\* ReturnType (*func)(): a function pointer, with its result type.
FuncPtr(name, type) == [name |-> name, type |-> type]

\* ReturnType()
ZeroValue(type) == 0

\* [returnValue]() -> ReturnType { return returnValue; }
Wrapper(returnValue) == [returnValue |-> returnValue]

CallWrapper(w) == w.returnValue

NoStubs == [f \in {} |-> Wrapper(0)]

MockOp(op, type, func, value, result) ==
    [op |-> op, type |-> type, func |-> func, value |-> value,
     result |-> result]

\* GetMockFunctions<ReturnType>()[reinterpret_cast<void*>(func)] = wrapper
SetReturn(func, returnValue) ==
    LET mockMap == mockFunctions[func.type] IN
    /\ mockFunctions' =
          [mockFunctions EXCEPT ![func.type] =
              [f \in DOMAIN mockMap \cup {func.name} |->
                  IF f = func.name THEN Wrapper(returnValue) ELSE mockMap[f]]]
    /\ mockOps' = Append(mockOps, MockOp("SetReturn", func.type, func.name,
                                         returnValue, 0))
    /\ UNCHANGED <<mockStorage, exceptMock>>

\* What Invoke(func) returns: it->second() when find gives an element,
\* ReturnType() otherwise.
InvokeResult(func) ==
    LET mockMap == mockFunctions[func.type] IN
    IF func.name \in DOMAIN mockMap
    THEN CallWrapper(mockMap[func.name])
    ELSE ZeroValue(func.type)

Invoke(func) ==
    /\ mockOps' = Append(mockOps, MockOp("Invoke", func.type, func.name, 0,
                                         InvokeResult(func)))
    /\ UNCHANGED <<mockFunctions, mockStorage, exceptMock>>

\* Reset that clears the maps of all the result types
Reset_Everything(type) ==
    /\ mockFunctions' = [t \in ReturnTypes |-> NoStubs]
    /\ mockOps' = Append(mockOps, MockOp("Reset", type, "", 0, 0))
    /\ UNCHANGED <<mockStorage, exceptMock>>

\* GetMockFunctions<ReturnType>().clear()
Reset(type) ==
    /\ mockFunctions' = [mockFunctions EXCEPT ![type] = NoStubs]
    /\ mockOps' = Append(mockOps, MockOp("Reset", type, "", 0, 0))
    /\ UNCHANGED <<mockStorage, exceptMock>>

\* mockStorage().clear(): the map that nothing ever writes to.
ResetAll ==
    /\ mockStorage' = [t \in {} |-> 0]
    /\ mockOps' = Append(mockOps, MockOp("ResetAll", "", "", 0, 0))
    /\ UNCHANGED <<mockFunctions, exceptMock>>

----------------------------------------------------------------------------
(* Inputs of the TestFramework specifications. *)

Names == { <<"A">>, <<"A", "B">>, <<"B">>, DISABLED_ \o <<"A">>,
           <<"A">> \o DISABLED_ }

Prefixes == { <<>>, <<"A">>, <<"B">>, DISABLED_ }

AssertNames == { <<"A">>, <<"B">> }

Funcs == { Return, ThrowStd("boom"), ThrowOther }

AssertFuncs ==
    { AssertTrue(c) : c \in BOOLEAN } \cup
    { AssertFalse(c) : c \in BOOLEAN } \cup
    { AssertEq(e, a) : e \in 1..2, a \in 1..2 } \cup
    { AssertNe(e, a) : e \in 1..2, a \in 1..2 } \cup
    { AssertThrow(s) : s \in {"nothing", "expected", "unexpected"} } \cup
    { Return, ThrowStd("boom") }

\* The program after static initialisation: every registry is empty.
Constructed ==
    /\ tests = <<>>
    /\ fw = NoRun
    /\ suites = [s \in {} |-> <<>>]
    /\ setupFuncs = [s \in {} |-> Return]
    /\ teardownFuncs = [s \in {} |-> Return]
    /\ mainT = MainIdle
    /\ threads = <<>>
    /\ trace = NoTrace
    /\ errs = <<>>
    /\ terminated = FALSE
    /\ paramTests = <<>>
    /\ pm = NoParamRun
    /\ benchmarks = [n \in {} |-> BenchmarkCase(Return, 0)]
    /\ benchRegs = <<>>
    /\ bench = NoBenchRun
    /\ mockFunctions = [t \in ReturnTypes |-> NoStubs]
    /\ mockStorage = [t \in {} |-> 0]
    /\ mockOps = <<>>
    /\ lastHook = [x \in {} |-> Return]
    /\ now = 0
    /\ logs = <<>>
    /\ runs = 0

Init == Constructed /\ keepLogs = FALSE

Next ==
    \/ \E name \in Names, func \in Funcs :
          Len(tests) < MaxTests /\ RegisterTest(name, func)
    \/ RunAllTests
    \/ \E prefix \in Prefixes : RunTestsByPrefix(prefix)
    \/ \E testName \in Names : RunSingleTest(testName)
    \/ RunDisabledTests

Spec == Init /\ [][Next]_vars

----------------------------------------------------------------------------
(* Inputs of the TestSuite specifications. *)

SuiteTestNames == { <<"X">>, <<"Y">> }

Hook(id, func) == [name |-> id, func |-> func]

SetupInputs ==
    { <<"Math", Hook(<<"s1">>, Return)>>,
      <<"Ghost", Hook(<<"s3">>, Return)>> }

TeardownInputs ==
    { <<"Math", Hook(<<"t1">>, Return)>>,
      <<"Ghost", Hook(<<"t3">>, Return)>> }

SuiteFilters == { <<>>, <<"X">>, <<"Y">> }

\* The number of TestSuite::RegisterTest calls so far.
RECURSIVE SumLen(_)
SumLen(S) ==
    IF S = {} THEN 0
    ELSE LET s == CHOOSE x \in S : TRUE
         IN  Len(suites[s]) + SumLen(S \ {s})

RegisteredSuiteTests == SumLen(DOMAIN suites)

\* RunSuite called directly: suite Math with tests of every kind, suite Str,
\* and Ghost, a name under which only hooks are registered.
SuiteInputs ==
    { <<"Math", test, func>> :
         test \in SuiteTestNames, func \in {Return, ThrowStd("boom"), ThrowOther} }
    \cup { <<"Str", <<"X">>, Return>> }

NextSuite ==
    \/ \E in \in SuiteInputs :
          /\ RegisteredSuiteTests < MaxSuiteTests
          /\ TestSuite_RegisterTest(in[1], in[2], in[3])
    \/ \E in \in SetupInputs : RegisterSetup(in[1], in[2])
    \/ \E in \in TeardownInputs : RegisterTeardown(in[1], in[2])
    \/ \E suite \in SuiteNames, testFilter \in SuiteFilters :
          CallRunSuite(suite, testFilter)
    \/ \E t \in Threads : RunSuiteLookup(t)
    \/ \E t \in Threads : SetupSuite(t)
    \/ \E t \in Threads : SetupReturn(t)
    \/ \E t \in Threads : TestBegin(t)
    \/ \E t \in Threads : TestEnd(t)
    \/ \E t \in Threads : TeardownSuite(t)
    \/ \E t \in Threads : TeardownReturn(t)

SpecSuite == Init /\ [][NextSuite]_vars

\* RunAllSuites: two suites with tests that pass or fail.
WorkerInputs ==
    { <<suite, test, func>> :
         suite \in {"Math", "Str"}, test \in SuiteTestNames,
         func \in {Return, ThrowStd("boom")} }

NextAllSuites ==
    \/ \E in \in WorkerInputs :
          /\ RegisteredSuiteTests < MaxWorkerTests
          /\ TestSuite_RegisterTest(in[1], in[2], in[3])
    \/ RegisterSetup("Math", Hook(<<"s1">>, Return))
    \/ RegisterTeardown("Math", Hook(<<"t1">>, Return))
    \/ CallRunAllSuites
    \/ \E key \in SuiteNames : Spawn(key)
    \/ SpawnDone
    \/ Join
    \/ RunAllSuitesReturn
    \/ \E t \in Threads : RunSuiteLookup(t)
    \/ \E t \in Threads : SetupSuite(t)
    \/ \E t \in Threads : SetupReturn(t)
    \/ \E t \in Threads : TestBegin(t)
    \/ \E t \in Threads : TestEnd(t)
    \/ \E t \in Threads : TeardownSuite(t)
    \/ \E t \in Threads : TeardownReturn(t)

SpecAllSuites == Init /\ [][NextAllSuites]_vars

\* Inputs of the TestParams specification: base names, test functions and
\* datasets of (int, int), (string, string), (string) and (int) tuples.
ParamNames == { <<"T">>, <<"U">> }

ParamFuncs == { Return, ThrowOther, ThrowStdIfNegative("neg") }

ParamDatasets ==
    { <<>>,
      << <<IntArg(1), IntArg(2)>>, <<IntArg(-3), IntArg(10)>> >>,
      << <<StrArg(<<"1", ",", " ", "2">>)>> >>,
      << <<StrArg(<<"a">>), StrArg(<<"b", ",", " ", "c">>)>>,
         <<StrArg(<<"a", ",", " ", "b">>), StrArg(<<"c">>)>> >>,
      << <<IntArg(10)>>, <<IntArg(-4)>>, <<IntArg(0)>> >> }

NextParams ==
    \/ \E name \in ParamNames, func \in ParamFuncs, params \in ParamDatasets :
          /\ Len(paramTests) + Len(params) <= MaxParamTests
          /\ RegisterParamTest(name, func, params)
    \/ RunAllParamTests

SpecParams == Init /\ [][NextParams]_vars

\* Inputs of the TestBenchmark specification.
BenchNames == {"Sort", "Loop"}

BenchFuncs == { Return }

BenchIterations == {-1, 0, 1, 2}

Durations == {1, 2}    \* milliseconds

\* The number of calls of func() that a run over the cases S makes when
\* every call returns.
RECURSIVE RunLength(_)
RunLength(S) ==
    IF S = {} THEN 0
    ELSE LET n == CHOOSE x \in S : TRUE
             k == benchmarks[n].iterations
         IN  (IF k > 0 THEN k ELSE 0) + RunLength(S \ {n})

\* One measured duration for each call of a run over the cases S.
Clocks(S) == [1..RunLength(S) -> Durations]

NextBench ==
    \/ \E name \in BenchNames, func \in BenchFuncs, iterations \in BenchIterations :
          /\ Len(benchRegs) < MaxBenchRegs
          /\ RegisterBenchmark(name, func, iterations)
    \/ \E order \in IterationOrders(DOMAIN benchmarks),
          clock \in Clocks(DOMAIN benchmarks) :
          RunAllBenchmarks(order, clock)
    \/ \E name \in BenchNames, order \in IterationOrders(DOMAIN benchmarks) :
          \E clock \in Clocks(DOMAIN benchmarks \cap {name}) :
             RunBenchmark(name, order, clock)

SpecBench == Init /\ [][NextBench]_vars

\* Run operations whose actions throw std::runtime_error: RunSuite on a
\* suite with throwing hooks and tests, and benchmark runs of a throwing
\* action.
ThrowingHooks == { Hook(<<"h1">>, Return), Hook(<<"h2">>, ThrowStd("boom")) }

NextRecoverable ==
    \/ \E func \in {Return, ThrowStd("boom")} :
          /\ RegisteredSuiteTests < MaxHookSuiteTests
          /\ TestSuite_RegisterTest("Math", <<"X">>, func)
    \/ \E hook \in ThrowingHooks : RegisterSetup("Math", hook)
    \/ \E hook \in ThrowingHooks : RegisterTeardown("Math", hook)
    \/ CallRunSuite("Math", <<>>)
    \/ \E t \in Threads : RunSuiteLookup(t)
    \/ \E t \in Threads : SetupSuite(t)
    \/ \E t \in Threads : SetupReturn(t)
    \/ \E t \in Threads : TestBegin(t)
    \/ \E t \in Threads : TestEnd(t)
    \/ \E t \in Threads : TeardownSuite(t)
    \/ \E t \in Threads : TeardownReturn(t)
    \/ \E func \in {Return, ThrowStd("boom")} :
          /\ Len(benchRegs) < MaxBenchRegs
          /\ RegisterBenchmark("Sort", func, 1)
    \/ \E order \in IterationOrders(DOMAIN benchmarks),
          clock \in Clocks(DOMAIN benchmarks) :
          RunAllBenchmarks(order, clock)
    \/ \E order \in IterationOrders(DOMAIN benchmarks),
          clock \in Clocks(DOMAIN benchmarks) :
          RunBenchmark("Sort", order, clock)

SpecRecoverable == Init /\ [][NextRecoverable]_vars

\* Inputs of the Mock specification.
MockFuncs ==
    { FuncPtr("GetValue", "int"), FuncPtr("GetOther", "int"),
      FuncPtr("GetLong", "long") }

MockValues == {0, 100}

NextMock ==
    \/ \E func \in MockFuncs, returnValue \in MockValues :
          Len(mockOps) < MaxMockOps /\ SetReturn(func, returnValue)
    \/ \E func \in MockFuncs :
          Len(mockOps) < MaxMockOps /\ Invoke(func)
    \/ \E type \in ReturnTypes :
          Len(mockOps) < MaxMockOps /\ Reset(type)
    \/ Len(mockOps) < MaxMockOps /\ ResetAll

SpecMock == Init /\ [][NextMock]_vars

\* Every run operation next to every registration, on small registries.
TotalRegistered ==
    Len(tests) + Len(paramTests) + Len(benchRegs) + RegisteredSuiteTests

NextFrame ==
    \/ TotalRegistered < MaxFrameRegs /\ RegisterTest(<<"A">>, Return)
    \/ RunAllTests
    \/ RunTestsByPrefix(<<"A">>)
    \/ RunSingleTest(<<"A">>)
    \/ RunDisabledTests
    \/ /\ TotalRegistered < MaxFrameRegs
       /\ RegisterParamTest(<<"T">>, Return, << <<IntArg(1)>> >>)
    \/ RunAllParamTests
    \/ TotalRegistered < MaxFrameRegs /\ RegisterBenchmark("Sort", Return, 1)
    \/ \E order \in IterationOrders(DOMAIN benchmarks) :
          RunAllBenchmarks(order, [k \in 1..RunLength(DOMAIN benchmarks) |-> 1])
    \/ \E order \in IterationOrders(DOMAIN benchmarks) :
          RunBenchmark("Sort", order, [k \in 1..RunLength(DOMAIN benchmarks) |-> 1])
    \/ /\ TotalRegistered < MaxFrameRegs
       /\ TestSuite_RegisterTest("Str", <<"X">>, Return)
    \/ RegisterSetup("Str", Hook(<<"s2">>, Return))
    \/ RegisterTeardown("Str", Hook(<<"t2">>, Return))
    \/ \E suite \in SuiteNames, testFilter \in {<<>>, <<"X">>, <<"Y">>} :
          CallRunSuite(suite, testFilter)
    \/ CallRunAllSuites
    \/ \E key \in SuiteNames : Spawn(key)
    \/ SpawnDone
    \/ Join
    \/ RunAllSuitesReturn
    \/ \E t \in Threads : RunSuiteLookup(t)
    \/ \E t \in Threads : SetupSuite(t)
    \/ \E t \in Threads : SetupReturn(t)
    \/ \E t \in Threads : TestBegin(t)
    \/ \E t \in Threads : TestEnd(t)
    \/ \E t \in Threads : TeardownSuite(t)
    \/ \E t \in Threads : TeardownReturn(t)

SpecFrame == Init /\ [][NextFrame]_vars

----------------------------------------------------------------------------
(* The log files of successive and of concurrent runs: the history of
   OpenLogFile calls is kept, and seconds pass between any two steps. *)

LogSuites == {"Math", "Str"}

InitLog == Constructed /\ keepLogs = TRUE

NextLog ==
    \/ \E suite \in LogSuites :
          /\ runs = 0
          /\ suite \notin DOMAIN suites
          /\ TestSuite_RegisterTest(suite, <<"X">>, Return)
    \/ now < MaxNow /\ Tick
    \/ runs < MaxRuns /\ RunAllTests
    \/ runs < MaxRuns /\ CallRunSuite("Math", <<>>)
    \/ runs < MaxRuns /\ CallRunAllSuites
    \/ \E key \in SuiteNames : Spawn(key)
    \/ SpawnDone
    \/ Join
    \/ RunAllSuitesReturn
    \/ \E t \in Threads : RunSuiteLookup(t)
    \/ \E t \in Threads : SetupSuite(t)
    \/ \E t \in Threads : TestBegin(t)
    \/ \E t \in Threads : TestEnd(t)
    \/ \E t \in Threads : TeardownSuite(t)

SpecLog == InitLog /\ [][NextLog]_vars

----------------------------------------------------------------------------
(* Setup and teardown functions registered again for the same suite: the
   second function of a kind is registered over a first one. *)

HookSuites == {"Math", "Str"}

NextHooks ==
    \/ \E suite \in HookSuites :
          /\ suite \notin DOMAIN suites
          /\ TestSuite_RegisterTest(suite, <<"X">>, Return)
    \/ \E suite \in HookSuites : RegisterSetup(suite, Hook(<<"s1">>, Return))
    \/ \E suite \in HookSuites :
          /\ suite \in DOMAIN setupFuncs
          /\ RegisterSetup(suite, Hook(<<"s2">>, Return))
    \/ \E suite \in HookSuites : RegisterTeardown(suite, Hook(<<"t1">>, Return))
    \/ \E suite \in HookSuites :
          /\ suite \in DOMAIN teardownFuncs
          /\ RegisterTeardown(suite, Hook(<<"t2">>, Return))
    \/ \E suite \in HookSuites : CallRunSuite(suite, <<>>)
    \/ RunSuiteLookup(0)
    \/ SetupSuite(0)
    \/ SetupReturn(0)
    \/ TestBegin(0)
    \/ TestEnd(0)
    \/ TeardownSuite(0)
    \/ TeardownReturn(0)

SpecHooks == Init /\ [][NextHooks]_vars

(* Repeated registrations under one name, and RunSingleTest. *)

RepeatedNames == { <<"A">>, <<"B">> }

RepeatedFuncs == { Return, ThrowOther }

NextRepeated ==
    \/ \E name \in RepeatedNames, func \in RepeatedFuncs :
          Len(tests) < MaxCalls /\ RegisterTest(name, func)
    \/ \E testName \in RepeatedNames : RunSingleTest(testName)

SpecRepeated == Init /\ [][NextRepeated]_vars

(* RunAllSuites with a test that never returns, under fair scheduling:
   the caller and every started thread take their next step when they can. *)

FairSuites == {"Math", "Str"}

FairFuncs == { Return, Hang }

NextFair ==
    \/ \E suite \in FairSuites, func \in FairFuncs :
          /\ IF suite \in DOMAIN suites
             THEN Len(suites[suite]) < MaxFairTests
             ELSE TRUE
          /\ TestSuite_RegisterTest(suite, <<"X">>, func)
    \/ RegisterSetup("Str", Hook(<<"s1">>, Return))
    \/ RegisterTeardown("Str", Hook(<<"t1">>, Return))
    \/ CallRunAllSuites
    \/ \E key \in SuiteNames : Spawn(key)
    \/ SpawnDone
    \/ Join
    \/ RunAllSuitesReturn
    \/ \E t \in Threads : RunSuiteLookup(t)
    \/ \E t \in Threads : SetupSuite(t)
    \/ \E t \in Threads : SetupReturn(t)
    \/ \E t \in Threads : TestBegin(t)
    \/ \E t \in Threads : TestEnd(t)
    \/ \E t \in Threads : TeardownSuite(t)
    \/ \E t \in Threads : TeardownReturn(t)

\* The next step of thread t inside RunSuite.
ThreadStep(t) ==
    /\ t \in Threads
    /\ \/ RunSuiteLookup(t)
       \/ SetupSuite(t)
       \/ SetupReturn(t)
       \/ TestBegin(t)
       \/ TestEnd(t)
       \/ TeardownSuite(t)
       \/ TeardownReturn(t)

\* The next step of the caller inside RunAllSuites.
CallerStep ==
    \/ \E key \in SuiteNames : Spawn(key)
    \/ SpawnDone
    \/ Join
    \/ RunAllSuitesReturn

Fairness ==
    /\ WF_vars(CallerStep)
    /\ \A t \in 1..Cardinality(FairSuites) : WF_vars(ThreadStep(t))

SpecFair == Init /\ [][NextFair]_vars /\ Fairness

NextAssert ==
    \/ \E name \in AssertNames, func \in AssertFuncs :
          Len(tests) < MaxTests /\ RegisterTest(name, func)
    \/ RunAllTests

SpecAssert == Init /\ [][NextAssert]_vars

----------------------------------------------------------------------------
(* Properties of the TestFramework run operations. *)

Recoverable(func) == func.stmt \in {"return", "throw_std"}

StartsWith(name, p) ==
    /\ Len(p) <= Len(name)
    /\ SubSeq(name, 1, Len(p)) = p

Increasing(seq) ==
    \A p, q \in 1..Len(seq) : p < q => seq[p] < seq[q]

Range(seq) == { seq[p] : p \in 1..Len(seq) }

Count(seq, v) == Cardinality({ p \in 1..Len(seq) : seq[p].verdict = v })

\* The names the run operation recorded in fw is to select.
Selected(i) ==
    CASE fw.op = "RunAllTests"      -> TRUE
      [] fw.op = "RunTestsByPrefix" -> StartsWith(tests[i].name, fw.arg)
      [] fw.op = "RunSingleTest"    -> tests[i].name = fw.arg
      [] fw.op = "RunDisabledTests" -> StartsWith(tests[i].name, DISABLED_)
      [] OTHER -> FALSE

\* C1: when every registered action completes or raises a std::exception,
\* RunAllTests calls every registered test exactly once, in registration
\* order, and prints a summary with total = passed + failed = number of
\* registrations.
C1_RunAllVisitsEachOnce ==
    (fw.op = "RunAllTests" /\ \A i \in 1..Len(tests) : Recoverable(tests[i].func))
    => /\ fw.executed = [i \in 1..Len(tests) |-> i]
       /\ fw.summary
       /\ ~fw.propagated
       /\ fw.total = fw.passed + fw.failed
       /\ fw.total = Len(tests)
       /\ Len(fw.lines) = Len(tests)

C1_Witness ==
    /\ fw.op = "RunAllTests"
    /\ Len(tests) = 3
    /\ \A i \in 1..3 : Recoverable(tests[i].func)
    /\ tests[1].name = tests[3].name
    /\ fw.total = 3

\* C2: a test whose action raises a std::exception is reported FAIL with the
\* exception's message, the next test that matches the filter is still
\* called, and the counts are those of the lines printed; registering A, B, C
\* where only B raises makes RunAllTests report Total 3, Passed 2, Failed 1.
C2_FailureIsCountedAndRunContinues ==
    /\ \A p \in 1..Len(fw.executed) :
          LET i == fw.executed[p] IN
          tests[i].func.stmt = "throw_std" =>
             /\ p <= Len(fw.lines)
             /\ fw.lines[p] = [name |-> tests[i].name, verdict |-> "FAIL",
                               what |-> tests[i].func.what]
             /\ \A j \in (i + 1)..Len(tests) :
                   ( /\ Selected(j)
                     /\ \A k \in (i + 1)..(j - 1) :
                           Selected(k) => tests[k].func.stmt # "throw_other" )
                   => j \in Range(fw.executed)
    /\ fw.passed = Count(fw.lines, "PASS")
    /\ fw.failed = Count(fw.lines, "FAIL")
    /\ ( /\ fw.op = "RunAllTests"
         /\ Len(tests) = 3
         /\ tests[1].func.stmt = "return"
         /\ tests[2].func.stmt = "throw_std"
         /\ tests[3].func.stmt = "return" )
       => (fw.summary /\ fw.total = 3 /\ fw.passed = 2 /\ fw.failed = 1)

C2_Witness ==
    /\ fw.op = "RunAllTests"
    /\ Len(tests) = 3
    /\ tests[1].func.stmt = "return"
    /\ tests[2].func.stmt = "throw_std"
    /\ tests[3].func.stmt = "return"
    /\ fw.executed = <<1, 2, 3>>
    /\ fw.lines[2].verdict = "FAIL"
    /\ fw.lines[2].what = "boom"

\* The expected condition of the assertion in the body does not hold.
ExpectationFails(func) ==
    \/ func.stmt = "ASSERT_TRUE" /\ ~func.condition
    \/ func.stmt = "ASSERT_FALSE" /\ func.condition
    \/ func.stmt = "ASSERT_EQ" /\ func.expected # func.actual
    \/ func.stmt = "ASSERT_NE" /\ func.expected = func.actual
    \/ func.stmt = "ASSERT_THROW" /\ func.statement # "expected"

\* C3: a test whose body evaluates an assertion macro whose expected
\* condition does not hold is recorded FAIL, never PASS.
C3_FailedAssertionIsRecordedFail ==
    \A p \in 1..Len(fw.lines) :
        ExpectationFails(tests[fw.executed[p]].func)
        => fw.lines[p].verdict = "FAIL"

\* C4: an action that raises something that is no std::exception is not
\* caught: it is the last action the run calls, no line and no summary is
\* printed for it, and the exception leaves the run operation.
C4_FatalAbortsRun ==
    /\ \A p \in 1..Len(fw.executed) :
          tests[fw.executed[p]].func.stmt = "throw_other"
          => /\ p = Len(fw.executed)
             /\ Len(fw.lines) = p - 1
             /\ fw.propagated
             /\ ~fw.summary
    /\ fw.propagated
       => /\ fw.executed # <<>>
          /\ tests[fw.executed[Len(fw.executed)]].func.stmt = "throw_other"

C4_Witness ==
    /\ fw.op = "RunAllTests"
    /\ Len(tests) = 3
    /\ tests[2].func.stmt = "throw_other"
    /\ tests[3].func.stmt = "return"
    /\ fw.executed = <<1, 2>>
    /\ fw.propagated

\* C10: RunTestsByPrefix(p) calls the registered tests whose name starts with
\* p, in registration order, and no others (up to a test that aborts the
\* run); with p = "" its calls, lines and counts are those of RunAllTests.
C10_PrefixSelectsExactly ==
    fw.op = "RunTestsByPrefix" =>
       LET sel == { i \in 1..Len(tests) : StartsWith(tests[i].name, fw.arg) }
           all == RunFilteredTests("RunAllTests", <<>>, [kind |-> "all"],
                                   <<"AllTests">>)
       IN  /\ Increasing(fw.executed)
           /\ Range(fw.executed) \subseteq sel
           /\ \A i \in sel :
                 i \in Range(fw.executed)
                 \/ \E k \in 1..(i - 1) :
                       k \in sel /\ tests[k].func.stmt = "throw_other"
           /\ fw.arg = <<>> =>
                 /\ fw.executed = all.executed
                 /\ fw.lines = all.lines
                 /\ fw.passed = all.passed
                 /\ fw.failed = all.failed
                 /\ fw.total = all.total
                 /\ fw.summary = all.summary
                 /\ fw.propagated = all.propagated
                 /\ (~fw.propagated => fw.executed = [i \in 1..Len(tests) |-> i])

C10_Witness ==
    /\ fw.op = "RunTestsByPrefix"
    /\ fw.arg = <<"B">>
    /\ Len(tests) = 3
    /\ tests[1].name = <<"A", "B">>
    /\ tests[2].name = <<"B">>
    /\ tests[3].name = <<"B">>
    /\ fw.executed = <<2, 3>>

C12_DisabledSelectsExactly ==
    fw.op = "RunDisabledTests" =>
       LET sel == { i \in 1..Len(tests) :
                      /\ Len(tests[i].name) >= Len(DISABLED_)
                      /\ \A k \in 1..Len(DISABLED_) :
                            tests[i].name[k] = DISABLED_[k] }
       IN  /\ Increasing(fw.executed)
           /\ Range(fw.executed) \subseteq sel
           /\ \A i \in sel :
                 i \in Range(fw.executed)
                 \/ \E k \in 1..(i - 1) :
                       k \in sel /\ tests[k].func.stmt = "throw_other"
           /\ (\A i \in sel : Recoverable(tests[i].func))
                 => /\ fw.summary
                    /\ fw.total = Cardinality(sel)

C12_Witness ==
    /\ fw.op = "RunDisabledTests"
    /\ Len(tests) = 3
    /\ tests[1].name = <<"A">> \o DISABLED_
    /\ tests[2].name = DISABLED_ \o <<"A">>
    /\ tests[3].name = DISABLED_ \o <<"A">>
    /\ fw.executed = <<2, 3>>
    /\ fw.total = 2

\* A call of TestFramework::RegisterTest.
RegisterTestStep ==
    fw'.op = "RegisterTest" /\ <<tests, fw>>' # <<tests, fw>>

\* C25: RegisterTest always appends and never rejects or replaces, so n
\* calls leave n cases in call order, repeated names included; and
\* RunSingleTest(name) calls exactly the cases whose name equals name,
\* duplicates included, in registration order (up to a case that aborts
\* the run).
C25_RegisterAlwaysAppends ==
    [][ /\ RegisterTestStep =>
              /\ Len(tests') = Len(tests) + 1
              /\ SubSeq(tests', 1, Len(tests)) = tests
              /\ tests'[Len(tests')].name = fw'.arg
        /\ fw'.op = "RunSingleTest" =>
              LET sel == { i \in 1..Len(tests') : tests'[i].name = fw'.arg } IN
              /\ Increasing(fw'.executed)
              /\ Range(fw'.executed) \subseteq sel
              /\ \A i \in sel :
                    i \in Range(fw'.executed)
                    \/ \E k \in 1..(i - 1) :
                          k \in sel /\ tests'[k].func.stmt = "throw_other"
      ]_vars

C25_Witness ==
    /\ fw.op = "RunSingleTest"
    /\ fw.arg = <<"A">>
    /\ Len(tests) = 3
    /\ tests[1].name = <<"A">>
    /\ tests[2].name = <<"B">>
    /\ tests[3].name = <<"A">>
    /\ fw.executed = <<1, 3>>

----------------------------------------------------------------------------
(* Properties of the TestSuite run operations. *)

Prefix(a, b) == Len(a) <= Len(b) /\ a = SubSeq(b, 1, Len(a))

HookEvents(kind, map, suite, t) ==
    IF suite \in DOMAIN map
    THEN <<Event(kind, "begin", map[suite], t), Event(kind, "end", map[suite], t)>>
    ELSE <<>>

TestEvents(list, t) ==
    [n \in 1..(2 * Len(list)) |->
        Event("test", IF n % 2 = 1 THEN "begin" ELSE "end",
              list[(n + 1) \div 2], t)]

\* Thread t runs the setup hook of the suite (when it has one), the tests of
\* list one after the other, and the teardown hook (when it has one).
Expected(list, suite, t) ==
    HookEvents("setup", setupFuncs, suite, t)
    \o TestEvents(list, t)
    \o HookEvents("teardown", teardownFuncs, suite, t)

OnlySuite(suite) == \A s \in SuiteNames \ {suite} : trace[s] = <<>>

Begun(suite, kind) ==
    Cardinality({ n \in 1..Len(trace[suite]) :
                    trace[suite][n].kind = kind /\ trace[suite][n].phase = "begin" })

Ended(suite, kind) ==
    Cardinality({ n \in 1..Len(trace[suite]) :
                    trace[suite][n].kind = kind /\ trace[suite][n].phase = "end" })

HooksComplete(suite) ==
    /\ suite \in DOMAIN setupFuncs => Call(setupFuncs[suite].func).kind = "completes"
    /\ suite \in DOMAIN teardownFuncs => Call(teardownFuncs[suite].func).kind = "completes"

\* C5: RunSuite(suite) on a known suite calls the setup hook once before any
\* test, then every test of the suite once in registration order, then the
\* teardown hook once, whether the tests pass or fail; at every moment the
\* calls made so far are an initial part of that sequence, and the run is
\* left by an exception only when a test raised a non-recoverable one.
C5_WholeSuiteRun ==
    ( /\ mainT.op = "RunSuite"
      /\ mainT.testFilter = <<>>
      /\ mainT.suite \in DOMAIN suites
      /\ HooksComplete(mainT.suite) )
    => LET s == mainT.suite
           full == Expected(suites[s], s, 0)
       IN  /\ Prefix(trace[s], full)
           /\ OnlySuite(s)
           /\ Begun(s, "setup") <= 1
           /\ Begun(s, "teardown") <= 1
           /\ mainT.pc = "returned"
              => /\ trace[s] = full
                 /\ mainT.summary
                 /\ mainT.passed + mainT.failed = Len(suites[s])
                 /\ errs = <<>>
           /\ mainT.pc = "propagated"
              => /\ trace[s] # <<>>
                 /\ trace[s][Len(trace[s])].kind = "test"
                 /\ trace[s][Len(trace[s])].what.func.stmt = "throw_other"

C5_Witness ==
    /\ mainT.op = "RunSuite"
    /\ mainT.testFilter = <<>>
    /\ mainT.suite = "Math"
    /\ mainT.pc = "returned"
    /\ "Math" \in DOMAIN setupFuncs
    /\ "Math" \in DOMAIN teardownFuncs
    /\ "Math" \in DOMAIN suites
    /\ Len(suites["Math"]) = 2
    /\ suites["Math"][1].func.stmt = "throw_std"
    /\ mainT.failed = 1
    /\ mainT.passed = 1
    /\ Len(trace["Math"]) = 8

\* The first test of the list with the given name, as a one-element list.
FirstNamed(list, name) ==
    LET Named(tc) == tc.name = name
    IN  <<Head(SelectSeq(list, Named))>>

\* C6: RunSuite(suite, name) on a known suite with a non-empty filter: when a
\* test of the suite has that name, the setup hook is called once, then one
\* test with that name (the first registered) and no other test, then the
\* teardown hook once; when no test has that name, an error is reported and
\* no test and no hook is called.
C6_FilteredSuiteRun ==
    ( /\ mainT.op = "RunSuite"
      /\ mainT.testFilter # <<>>
      /\ mainT.suite \in DOMAIN suites
      /\ HooksComplete(mainT.suite) )
    => LET s == mainT.suite
           list == suites[s]
           some == \E k \in 1..Len(list) : list[k].name = mainT.testFilter
       IN  /\ OnlySuite(s)
           /\ some =>
                LET full == Expected(FirstNamed(list, mainT.testFilter), s, 0)
                IN  /\ Prefix(trace[s], full)
                    /\ Begun(s, "test") <= 1
                    /\ mainT.passed + mainT.failed <= 1
                    /\ errs = <<>>
                    /\ mainT.pc = "returned"
                       => /\ trace[s] = full
                          /\ Begun(s, "test") = 1
                          /\ Begun(s, "setup") = (IF s \in DOMAIN setupFuncs THEN 1 ELSE 0)
                          /\ Begun(s, "teardown") = (IF s \in DOMAIN teardownFuncs THEN 1 ELSE 0)
                          /\ mainT.passed + mainT.failed = 1
           /\ ~some =>
                /\ trace[s] = <<>>
                /\ mainT.pc \in {"RunSuite", "returned"}
                /\ mainT.pc = "returned"
                   => errs = <<[error |-> "test not found", suite |-> s,
                                test |-> mainT.testFilter]>>

C6_Witness ==
    /\ mainT.op = "RunSuite"
    /\ mainT.suite = "Math"
    /\ mainT.testFilter = <<"Y">>
    /\ mainT.pc = "returned"
    /\ "Math" \in DOMAIN suites
    /\ Len(suites["Math"]) = 3
    /\ suites["Math"][1].name = <<"X">>
    /\ suites["Math"][2].name = <<"Y">>
    /\ suites["Math"][3].name = <<"Y">>
    /\ suites["Math"][2].func # suites["Math"][3].func
    /\ "Math" \in DOMAIN setupFuncs
    /\ "Math" \in DOMAIN teardownFuncs
    /\ Len(trace["Math"]) = 6

C6_WitnessNoMatch ==
    /\ mainT.op = "RunSuite"
    /\ mainT.suite = "Math"
    /\ mainT.testFilter = <<"Y">>
    /\ mainT.pc = "returned"
    /\ "Math" \in DOMAIN suites
    /\ "Math" \in DOMAIN setupFuncs
    /\ Len(errs) = 1

\* C7: RunSuite on a name that is no key of the suite registry reports an
\* error and returns without calling a test or a hook, also when hooks are
\* registered under that name: the step that follows the entry into RunSuite
\* is its return, with the error written and nothing called.
C7_UnknownSuite ==
    [][ ( /\ mainT.op = "RunSuite"
          /\ mainT.pc = "RunSuite"
          /\ mainT.suite \notin DOMAIN suites )
        => ( /\ mainT'.pc = "returned"
             /\ errs' = <<[error |-> "suite not found", suite |-> mainT.suite,
                           test |-> <<>>]>>
             /\ trace' = NoTrace
             /\ mainT'.passed = 0 /\ mainT'.failed = 0 /\ ~mainT'.summary
             /\ ~terminated' ) ]_vars

\* A run of an unknown suite has been entered; its result is in errs.
UnknownSuiteRunSeen ==
    /\ mainT.op = "RunSuite"
    /\ mainT.pc = "returned"
    /\ Len(errs) = 1
    /\ errs[1].error = "suite not found"

C7_Witness ==
    /\ UnknownSuiteRunSeen
    /\ mainT.suite = "Ghost"
    /\ "Ghost" \in DOMAIN setupFuncs
    /\ "Ghost" \in DOMAIN teardownFuncs
    /\ "Math" \in DOMAIN suites

WorkerOf(s) == { t \in 1..Len(threads) : threads[t].suite = s }

\* C8: RunAllSuites starts one thread per key of the suite registry, each
\* running RunSuite(key) without filter, and returns only when every thread
\* has finished: at its return every suite's setup, tests and teardown have
\* been called and have ended.
C8_RunAllSuitesJoinsAll ==
    mainT.op = "RunAllSuites" =>
       /\ \A t \in 1..Len(threads) :
             /\ threads[t].suite \in DOMAIN suites
             /\ threads[t].testFilter = <<>>
             /\ \A u \in 1..Len(threads) :
                   threads[u].suite = threads[t].suite => u = t
       /\ { threads[t].suite : t \in 1..Len(threads) } = mainT.spawned
       /\ mainT.pc \in {"join", "returned"} => mainT.spawned = DOMAIN suites
       /\ mainT.pc = "returned" =>
             /\ Len(threads) = Cardinality(DOMAIN suites)
             /\ \A t \in 1..Len(threads) :
                   /\ threads[t].pc = "returned"
                   /\ threads[t].summary
                   /\ threads[t].passed + threads[t].failed
                         = Len(suites[threads[t].suite])
             /\ \A s \in DOMAIN suites :
                   /\ Begun(s, "setup") = Ended(s, "setup")
                   /\ Begun(s, "setup") = (IF s \in DOMAIN setupFuncs THEN 1 ELSE 0)
                   /\ Begun(s, "test") = Len(suites[s])
                   /\ Ended(s, "test") = Len(suites[s])
                   /\ Begun(s, "teardown") = Ended(s, "teardown")
                   /\ Begun(s, "teardown") = (IF s \in DOMAIN teardownFuncs THEN 1 ELSE 0)

C8_Witness ==
    /\ mainT.op = "RunAllSuites"
    /\ mainT.pc = "returned"
    /\ DOMAIN suites = {"Math", "Str"}
    /\ Len(suites["Math"]) = 2
    /\ suites["Math"][1].func.stmt = "throw_std"
    /\ "Math" \in DOMAIN setupFuncs
    /\ "Math" \in DOMAIN teardownFuncs
    /\ Len(trace["Math"]) = 8
    /\ Len(trace["Str"]) = 2

\* C9: whatever the threads of the other suites do, the calls made for one
\* suite never overlap (each call ends before the next begins) and come in
\* the order setup, tests in registration order, teardown, all made by one
\* thread.
C9_SuiteSequential ==
    mainT.op = "RunAllSuites" =>
       \A s \in SuiteNames :
          LET tr == trace[s] IN
          /\ \A n \in 1..Len(tr) :
                /\ tr[n].phase = (IF n % 2 = 1 THEN "begin" ELSE "end")
                /\ n % 2 = 0 => /\ tr[n].what = tr[n - 1].what
                                /\ tr[n].kind = tr[n - 1].kind
                                /\ tr[n].thread = tr[n - 1].thread
          /\ tr # <<>> =>
                /\ s \in DOMAIN suites
                /\ \E t \in WorkerOf(s) : Prefix(tr, Expected(suites[s], s, t))

\* Two threads are inside a call at the same moment, and one suite has
\* called its setup and two tests.
C9_Witness ==
    /\ mainT.op = "RunAllSuites"
    /\ Len(threads) = 2
    /\ threads[1].pc = "in_test"
    /\ threads[2].pc = "in_test"
    /\ "Math" \in DOMAIN setupFuncs
    /\ Len(trace["Math"]) = 5
    /\ Len(trace["Str"]) = 1

----------------------------------------------------------------------------
(* Properties of TestParams. *)

\* tuple's elements from the k-th on, each as operator<< writes it, with
\* ", " between neighbours.
RECURSIVE JoinFrom(_, _)
JoinFrom(tuple, k) ==
    IF k > Len(tuple) THEN <<>>
    ELSE StreamOut(tuple[k])
         \o (IF k < Len(tuple) THEN <<",", " ">> ELSE <<>>)
         \o JoinFrom(tuple, k + 1)

\* A step that is a call of RegisterParamTest.
RegisterParamStep ==
    /\ pm'.op = "RegisterParamTest"
    /\ <<paramTests, pm>>' # <<paramTests, pm>>

\* C13: RegisterParamTest(base, action, dataset) with a dataset of n tuples
\* appends exactly n cases after the ones registered before, in dataset
\* order; the i-th is named base(v1, v2, ...) from the i-th tuple's elements
\* in tuple order and is bound to action and that tuple.  An empty dataset
\* appends nothing, and equal renderings give equal names that are all kept.
C13_RegisterParamAppends ==
    [][RegisterParamStep =>
          LET n == Len(pm'.params)
              old == Len(paramTests)
          IN  /\ Len(paramTests') = old + n
              /\ SubSeq(paramTests', 1, old) = paramTests
              /\ \A i \in 1..n :
                    /\ paramTests'[old + i].name =
                          pm'.name \o <<"(">> \o JoinFrom(pm'.params[i], 1)
                                  \o <<")">>
                    /\ paramTests'[old + i].func.func = pm'.func
                    /\ paramTests'[old + i].func.paramSet = pm'.params[i]
    ]_vars

\* Two tuples of one dataset that differ and render alike, after an earlier
\* registration under the same base name with the same rendering.
C13_Witness ==
    /\ pm.op = "RegisterParamTest"
    /\ Len(pm.params) = 2
    /\ pm.params[1] # pm.params[2]
    /\ Len(paramTests) = 4
    /\ paramTests[3].name = paramTests[4].name
    /\ paramTests[3].func.paramSet # paramTests[4].func.paramSet
    /\ paramTests[1].name = <<"T", "(", "1", ",", " ", "2", ")">>
    /\ paramTests[2].name = <<"T", "(", "-", "3", ",", " ", "1", "0", ")">>

----------------------------------------------------------------------------
(* Properties of TestBenchmark. *)

\* The positions of bench.calls that are calls of the case name.
CallsOf(name) == { q \in 1..Len(bench.calls) : bench.calls[q].name = name }

RECURSIVE SumDurations(_)
SumDurations(Q) ==
    IF Q = {} THEN 0
    ELSE LET q == CHOOSE x \in Q : TRUE
         IN  bench.calls[q].duration + SumDurations(Q \ {q})

BenchRun == bench.op \in {"RunAllBenchmarks", "RunBenchmark"}

BenchSelected(name) ==
    bench.op = "RunAllBenchmarks" \/ (bench.op = "RunBenchmark" /\ bench.arg = name)

\* C14: in a benchmark run whose actions return, every case of the registry
\* that the filter selects and that has iterations = k >= 1 has its action
\* called exactly k times and gets one "Avg Time" line, whose value is the
\* sum of the k measured durations divided by k.
C14_BenchmarkRunsKTimesAndReportsMean ==
    (BenchRun /\ ~bench.propagated) =>
       \A name \in DOMAIN benchmarks :
          LET k == benchmarks[name].iterations
              lines == { p \in 1..Len(bench.reports) :
                           bench.reports[p].name = name }
          IN  (BenchSelected(name) /\ k >= 1) =>
                 /\ Cardinality(CallsOf(name)) = k
                 /\ \A q \in CallsOf(name) : bench.calls[q].returned
                 /\ Cardinality(lines) = 1
                 /\ \A p \in lines :
                       LET avgTime == bench.reports[p].avgTime
                       IN  /\ avgTime.class = "number"
                           /\ avgTime.den # 0
                           /\ avgTime.num * k =
                                 SumDurations(CallsOf(name)) * avgTime.den

C14_Witness ==
    /\ bench.op = "RunAllBenchmarks"
    /\ bench.returned
    /\ DOMAIN benchmarks = {"Sort", "Loop"}
    /\ benchmarks["Sort"].iterations = 2
    /\ benchmarks["Loop"].iterations = 1
    /\ Len(bench.calls) = 3
    /\ \E p \in 1..2 :
          /\ bench.reports[p].name = "Sort"
          /\ bench.reports[p].avgTime = [class |-> "number", num |-> 3, den |-> 2]

\* C15: no "Avg Time" line is computed for a case with iterations <= 0, and
\* such a case does not stay in the registry to be run: registering it or
\* running it is refused.
C15_NonPositiveIterationsRejected ==
    /\ \A p \in 1..Len(bench.reports) : bench.reports[p].iterations >= 1
    /\ BenchRun =>
          \A name \in DOMAIN benchmarks :
             (BenchSelected(name) /\ benchmarks[name].iterations <= 0)
             => bench.propagated

\* C20: RunAllBenchmarks prints one "Avg Time" line for each call of
\* RegisterBenchmark made so far, in the order of the calls, also when two
\* calls gave the same name.
C20_BenchmarksRunInRegistrationOrder ==
    (bench.op = "RunAllBenchmarks" /\ bench.returned) =>
       /\ Len(bench.reports) = Len(benchRegs)
       /\ \A p \in 1..Len(bench.reports) :
             p <= Len(benchRegs) =>
                /\ bench.reports[p].name = benchRegs[p].name
                /\ bench.reports[p].iterations = benchRegs[p].iterations

----------------------------------------------------------------------------
(* The propagation policy across the run operations. *)

\* The "end" events of thread t in the trace of its suite.
EndsOf(t) ==
    LET tr == trace[Get(t).suite]
    IN  { q \in 1..Len(tr) : tr[q].thread = t /\ tr[q].phase = "end" }

\* The action whose call thread t ended last.
LastEnded(t) ==
    LET tr == trace[Get(t).suite]
        q == CHOOSE x \in EndsOf(t) : \A y \in EndsOf(t) : y <= x
    IN  tr[q].what.func

\* C19: when an exception leaves a run operation, the action that raised
\* it did not raise a std::exception: for the tests of RunFilteredTests and
\* RunAllParamTests, for the tests and the setup and teardown hooks of
\* RunSuite, and for the actions of RunAllBenchmarks and RunBenchmark.
C19_RecoverableNeverPropagates ==
    /\ fw.propagated =>
          Call(tests[fw.executed[Len(fw.executed)]].func).kind # "std_exception"
    /\ pm.propagated =>
          CallClosure(paramTests[pm.executed[Len(pm.executed)]].func).kind
             # "std_exception"
    /\ \A t \in Threads :
          Get(t).pc = "propagated" =>
             /\ EndsOf(t) # {}
             /\ Call(LastEnded(t)).kind # "std_exception"
    /\ bench.propagated => bench.exception.kind # "std_exception"

----------------------------------------------------------------------------
(* Properties of Mock. *)

\* The operation that a step appends to mockOps.
MockStep(op) ==
    /\ Len(mockOps') = Len(mockOps) + 1
    /\ mockOps'[Len(mockOps')].op = op

\* The operation at position q of mockOps sets the stub of (type, func).
Sets(q, type, func) ==
    /\ mockOps[q].op = "SetReturn"
    /\ mockOps[q].type = type
    /\ mockOps[q].func = func

\* The operation at position q of mockOps is to clear the stubs of type.
Clears(q, type) ==
    \/ mockOps[q].op = "Reset" /\ mockOps[q].type = type
    \/ mockOps[q].op = "ResetAll"

\* The value the stub of (type, func) is to have after all of mockOps: that
\* of the last SetReturn with no clearing operation after it, the zero
\* value when there is none.
Stubbed(type, func) ==
    LET last == { q \in 1..Len(mockOps) :
                    /\ Sets(q, type, func)
                    /\ \A r \in (q + 1)..Len(mockOps) :
                          ~Sets(r, type, func) /\ ~Clears(r, type) }
    IN  IF last = {} THEN ZeroValue(type)
        ELSE mockOps[CHOOSE q \in last : TRUE].value

\* C16: Invoke(f) returns the value of the most recent SetReturn(f, v) for
\* the key (result type, f) with no Reset of the type and no ResetAll after
\* it, and the zero value when there is none; it leaves the stub registry
\* as it is.
C16_InvokeReturnsLatestStub ==
    [][MockStep("Invoke") =>
          LET call == mockOps'[Len(mockOps')]
          IN  /\ call.result = Stubbed(call.type, call.func)
              /\ mockFunctions' = mockFunctions
    ]_vars

\* C17: an Invoke(f) that follows a ResetAll() with no SetReturn(f, v) in
\* between returns the zero value of f's result type.
C17_ResetAllClearsEveryStub ==
    \A q \in 1..Len(mockOps), p \in 1..Len(mockOps) :
       ( /\ q < p
         /\ mockOps[q].op = "ResetAll"
         /\ mockOps[p].op = "Invoke"
         /\ \A r \in (q + 1)..(p - 1) :
               ~Sets(r, mockOps[p].type, mockOps[p].func) )
       => mockOps[p].result = ZeroValue(mockOps[p].type)

\* C18: Reset(resultType) leaves no stub of resultType, so that Invoke
\* returns the zero value for every function of that type, and leaves the
\* stubs of the other result types as they are.
C18_ResetClearsOneType ==
    [][MockStep("Reset") =>
          LET type == mockOps'[Len(mockOps')].type
          IN  /\ DOMAIN mockFunctions'[type] = {}
              /\ \A func \in MockFuncs :
                    func.type = type => InvokeResult(func)' = ZeroValue(type)
              /\ \A t \in ReturnTypes \ {type} :
                    mockFunctions'[t] = mockFunctions[t]
              /\ \A func \in MockFuncs :
                    func.type # type => InvokeResult(func)' = InvokeResult(func)
    ]_vars

\* Two int stubs and a long stub, Reset<int>, and the long stub still there.
C18_Witness ==
    /\ Len(mockOps) = 4
    /\ mockOps[4].op = "Reset"
    /\ mockOps[4].type = "int"
    /\ \A q \in 1..3 : mockOps[q].op = "SetReturn" /\ mockOps[q].value = 100
    /\ DOMAIN mockFunctions["int"] = {}
    /\ DOMAIN mockFunctions["long"] = {"GetLong"}
    /\ InvokeResult(FuncPtr("GetLong", "long")) = 100
    /\ InvokeResult(FuncPtr("GetValue", "int")) = 0
    /\ { mockOps[q].func : q \in 1..3 } = {"GetValue", "GetOther", "GetLong"}

----------------------------------------------------------------------------
(* The registries under the run operations. *)

AllRegistries ==
    <<tests, paramTests, benchmarks, suites, setupFuncs, teardownFuncs>>

\* A step taken by a run operation: by RunFilteredTests, by
\* RunAllParamTests, by a benchmark run, or by RunSuite / RunAllSuites and
\* their threads (a registration of TestSuite leaves the caller idle).
RunStep ==
    \/ /\ fw' # fw
       /\ fw'.op \in {"RunAllTests", "RunTestsByPrefix", "RunSingleTest",
                      "RunDisabledTests"}
    \/ pm' # pm /\ pm'.op = "RunAllParamTests"
    \/ bench' # bench /\ bench'.op \in {"RunAllBenchmarks", "RunBenchmark"}
    \/ /\ <<mainT, threads, trace, errs>>' # <<mainT, threads, trace, errs>>
       /\ mainT'.pc # "idle"

\* C21: no step of a run operation changes a registry: the tests, the
\* parameterized tests, the benchmarks, the set of suites and each suite's
\* list, and the setup and teardown maps stay what they were; RunSuite on an
\* unknown name adds no key to any of them.
C21_RunsLeaveRegistries ==
    [][RunStep => AllRegistries' = AllRegistries]_vars

\* RunSuite("Ghost") has returned with its error line, runs of the other
\* classes have printed their output, and Ghost is a key of no map.
C21_Witness ==
    /\ mainT.op = "RunSuite"
    /\ mainT.suite = "Ghost"
    /\ mainT.pc = "returned"
    /\ Len(errs) = 1
    /\ "Ghost" \notin DOMAIN suites \cup DOMAIN setupFuncs \cup DOMAIN teardownFuncs
    /\ "Str" \in DOMAIN suites
    /\ Len(tests) = 1
    /\ fw.op = "RunAllTests"
    /\ fw.total = 1

\* The workers of RunAllSuites whose TestLogger has opened its file.
Logging == { t \in 1..Len(threads) : threads[t].logFileName # <<>> }

C23_RunsNeverShareLogFile ==
    \A i, j \in DOMAIN logs :
       logs[i].run # logs[j].run => logs[i].logFileName # logs[j].logFileName

\* The events of one kind and phase in the run of a suite.
HooksCalled(suite, kind, phase) ==
    SelectSeq(trace[suite], LAMBDA e : e.kind = kind /\ e.phase = phase)

HookKinds == {"setup", "teardown"}

HookMap(kind) == IF kind = "setup" THEN setupFuncs ELSE teardownFuncs

\* C24: after any sequence of setup / teardown registrations a suite has at
\* most one function of each kind, the one registered last; RunSuite calls
\* only that one, once each.
C24_LastHookWins ==
    \A kind \in HookKinds :
       /\ DOMAIN HookMap(kind) = { s \in SuiteNames : <<kind, s>> \in DOMAIN lastHook }
       /\ \A s \in DOMAIN HookMap(kind) : HookMap(kind)[s] = lastHook[<<kind, s>>]
       /\ \A s \in SuiteNames :
             /\ Len(HooksCalled(s, kind, "begin")) <= 1
             /\ \A k \in DOMAIN trace[s] :
                   trace[s][k].kind = kind =>
                      /\ <<kind, s>> \in DOMAIN lastHook
                      /\ trace[s][k].what = lastHook[<<kind, s>>]
       /\ (mainT.op = "RunSuite" /\ mainT.pc = "returned" /\ mainT.summary
             /\ <<kind, mainT.suite>> \in DOMAIN lastHook)
            => Len(HooksCalled(mainT.suite, kind, "end")) = 1

C24_Witness ==
    /\ mainT.op = "RunSuite" /\ mainT.suite = "Math"
    /\ mainT.pc = "returned" /\ mainT.summary /\ mainT.passed = 1
    /\ "Math" \in DOMAIN setupFuncs \cap DOMAIN teardownFuncs
    /\ setupFuncs["Math"].name = <<"s2">>
    /\ teardownFuncs["Math"].name = <<"t2">>
    /\ Len(HooksCalled("Math", "setup", "end")) = 1
    /\ Len(HooksCalled("Math", "teardown", "end")) = 1

\* A void() action that ends as the call of closure c ends.
ActionOf(c) ==
    LET o == CallClosure(c) IN
    CASE o.kind = "completes"     -> Return
      [] o.kind = "std_exception" -> ThrowStd(o.what)
      [] OTHER                    -> ThrowOther

\* The registry of TestParams as a registry of TestFramework.
AsTests ==
    [i \in 1..Len(paramTests) |->
        TestCase(paramTests[i].name, ActionOf(paramTests[i].func))]

\* C26: RunAllParamTests behaves as the filtered run of TestFramework does
\* with a filter that is always true on the same registry: the same cases in
\* the same order, going on after a std::exception, aborting on any other
\* exception, with the same lines and the same total, passed and failed.
C26_ParamRunIsUnfilteredRun ==
    pm.op = "RunAllParamTests" =>
       LET basic == RunFilteredLoop(AsTests, [kind |-> "all"], 1, NoRun) IN
       /\ pm.executed = basic.executed
       /\ pm.lines = basic.lines
       /\ pm.passed = basic.passed
       /\ pm.failed = basic.failed
       /\ pm.total = basic.total
       /\ pm.summary = basic.summary
       /\ pm.propagated = basic.propagated

\* A failure followed by a pass, then a case that aborts the run.
C26_Witness ==
    /\ pm.op = "RunAllParamTests"
    /\ Len(paramTests) = 4
    /\ Len(pm.lines) = 3
    /\ pm.lines[1].verdict = "PASS"
    /\ pm.lines[2].verdict = "FAIL"
    /\ pm.lines[3].verdict = "PASS"
    /\ pm.executed = <<1, 2, 3, 4>>
    /\ pm.propagated

\* No call made for suite s hangs.
Terminating(s) ==
    /\ \A i \in 1..Len(suites[s]) : suites[s][i].func.stmt # "hang"
    /\ s \in DOMAIN setupFuncs => setupFuncs[s].func.stmt # "hang"
    /\ s \in DOMAIN teardownFuncs => teardownFuncs[s].func.stmt # "hang"

\* A thread of RunAllSuites is inside a test that never returns.
Hung ==
    \E t \in 1..Len(threads) :
       /\ threads[t].pc = "in_test"
       /\ threads[t].tests[threads[t].i].func.stmt = "hang"

\* The thread of suite s has called the suite's setup, all its tests and its
\* teardown, each has ended, and the thread has returned.
Completed(s) ==
    \E t \in WorkerOf(s) :
       /\ threads[t].pc = "returned"
       /\ threads[t].summary
       /\ threads[t].passed + threads[t].failed = Len(suites[s])
       /\ trace[s] = Expected(suites[s], s, t)

\* C27: during RunAllSuites a test that never returns blocks only its own
\* thread: under fair scheduling the thread of every suite whose calls all
\* terminate completes the suite's setup, tests and teardown, while
\* RunAllSuites never returns once a thread hangs.
C27_HungTestBlocksOnlyItsWorker ==
    /\ \A s \in SuiteNames :
          (mainT.op = "RunAllSuites" /\ s \in DOMAIN suites /\ Terminating(s))
             ~> (s \in DOMAIN suites /\ Completed(s))
    /\ [](Hung => [](mainT.pc # "returned"))

C27_Witness ==
    /\ mainT.op = "RunAllSuites"
    /\ mainT.pc = "join"
    /\ Hung
    /\ "Str" \in DOMAIN suites \cap DOMAIN setupFuncs \cap DOMAIN teardownFuncs
    /\ Terminating("Str")
    /\ Completed("Str")
    /\ Len(trace["Str"]) = 6

====
